---- MODULE Spec2Model ----
(***************************************************************************)
(* solsec: heuristic detectors (reentrancy ordering, access-control gap,   *)
(* integer overflow) and the consolidation pipeline (merge, deduplicate,   *)
(* sort, summarise).  Source lines are modelled as character strings and   *)
(* every string operation of the code (TrimSpace, Contains, HasPrefix,     *)
(* ToLower, Fields, Split, Sscanf) is computed on them.                    *)
(*                                                                         *)
(* A Finding carries the fields ID, Source, Check, Title, Severity,        *)
(* Confidence, File, Lines and SWCRef.  Description, Remediation and       *)
(* References are free text that no code path reads; they are left out.    *)
(***************************************************************************)
EXTENDS Integers, Sequences, FiniteSets, TLC

VARIABLES
    file,            \* the file under scan: [path, lines]
    reent,           \* locals of checkReentrancyInFile
    access,          \* locals of checkAccessControlInFile
    overflow,        \* locals of checkIntegerOverflowInFile
    target,          \* Analyze: the target path's state on disk
    statErr,         \* Analyze: detector calls whose os.Stat(target) fails
    slitherFindings, \* Analyze: the caller's external findings
    allFindings,     \* Analyze: local allFindings
    checkOut,        \* Analyze: (findings, err) of each custom check run so far
    report,          \* Analyze: the returned *AnalysisReport
    retErr,          \* Analyze: the returned error
    pc,              \* Analyze: position in the function
    calc,            \* a call of Score, Grade or SeverityRank: argument and result
    run              \* runAnalyze: flags, outcomes of its steps, position

vars == <<file, reent, access, overflow, target, statErr, slitherFindings,
          allFindings, checkOut, report, retErr, pc, calc, run>>

-----------------------------------------------------------------------------
(* Bounds of the model *)

MaxReentLines == 4
MaxAccessLines == 2
MaxOverflowLines == 3
MaxExternal == 2
MaxSorted == 13
MaxDetectorLines == 3

-----------------------------------------------------------------------------
(* Strings: Go's strings package on TLA+ strings *)

Min(a, b) == IF a < b THEN a ELSE b

\* The printable characters in byte order (without quote, backslash and backtick).
ByteOrder == " !#$%&'()*+,-./0123456789:;<=>?@ABCDEFGHIJKLMNOPQRSTUVWXYZ[]^_abcdefghijklmnopqrstuvwxyz{|}~"

Char(s, i) == SubSeq(s, i, i)

Ord(c) == CHOOSE i \in 1..Len(ByteOrder) : Char(ByteOrder, i) = c

HasPrefix(s, p) == Len(p) <= Len(s) /\ SubSeq(s, 1, Len(p)) = p

\* strings.Index, 1-based; 0 when absent (Go: -1).
Index(s, p) ==
    LET hits == {i \in 1..(Len(s) - Len(p) + 1) : SubSeq(s, i, i + Len(p) - 1) = p}
    IN  IF hits = {} THEN 0 ELSE CHOOSE i \in hits : \A j \in hits : i <= j

Contains(s, p) == \E i \in 1..(Len(s) - Len(p) + 1) : SubSeq(s, i, i + Len(p) - 1) = p

\* unicode.IsSpace on the characters a model string can hold (up to U+00FF):
\* space, \t, \n, \v, \f, \r, U+0085 (NEL) and U+00A0 (NBSP).
IsSpace(c) == c \in {" ", "\t", "\n", "", "\f", "\r", "", " "}

RECURSIVE TrimLeftSpace(_)
TrimLeftSpace(s) ==
    IF s # "" /\ IsSpace(Char(s, 1)) THEN TrimLeftSpace(SubSeq(s, 2, Len(s))) ELSE s

RECURSIVE TrimRightSpace(_)
TrimRightSpace(s) ==
    IF s # "" /\ IsSpace(Char(s, Len(s))) THEN TrimRightSpace(SubSeq(s, 1, Len(s) - 1)) ELSE s

TrimSpace(s) == TrimRightSpace(TrimLeftSpace(s))

Uppers == "ABCDEFGHIJKLMNOPQRSTUVWXYZ"
Lowers == "abcdefghijklmnopqrstuvwxyz"

\* unicode.ToLower on the ASCII letters, as a table.
LowerTable == [c \in {Char(Uppers, i) : i \in 1..Len(Uppers)} |-> Char(Lowers, Index(Uppers, c))]

LowerChar(c) == IF c \in DOMAIN LowerTable THEN LowerTable[c] ELSE c

RECURSIVE ToLower(_)
ToLower(s) ==
    IF s = "" THEN "" ELSE LowerChar(Char(s, 1)) \o ToLower(SubSeq(s, 2, Len(s)))

Digits == "0123456789"

IsDigit(c) == c # "" /\ Contains(Digits, c)

DigitVal(c) == Index(Digits, c) - 1

RECURSIVE Itoa(_)
\* fmt's %d of a non-negative int
Itoa(n) ==
    IF n < 10 THEN Char(Digits, n + 1) ELSE Itoa(n \div 10) \o Char(Digits, (n % 10) + 1)

\* Go's < on strings: bytewise lexicographic.
RECURSIVE StrLess(_, _)
StrLess(a, b) ==
    IF b = "" THEN FALSE
    ELSE IF a = "" THEN TRUE
    ELSE IF Char(a, 1) = Char(b, 1) THEN StrLess(SubSeq(a, 2, Len(a)), SubSeq(b, 2, Len(b)))
    ELSE Ord(Char(a, 1)) < Ord(Char(b, 1))

-----------------------------------------------------------------------------
(* parser/models.go *)

SeverityCritical == "Critical"
SeverityHigh == "High"
SeverityMedium == "Medium"
SeverityLow == "Low"
SeverityInformational == "Informational"
SeverityOptimization == "Optimization"

Severities == {SeverityCritical, SeverityHigh, SeverityMedium, SeverityLow,
               SeverityInformational, SeverityOptimization}

\* The default case ranking an unknown severity first.
SeverityRankDefaultFirst(s) ==
    CASE s = SeverityCritical -> 0
      [] s = SeverityHigh -> 1
      [] s = SeverityMedium -> 2
      [] s = SeverityLow -> 3
      [] s = SeverityInformational -> 4
      [] s = SeverityOptimization -> 5
      [] OTHER -> 0

SeverityRank(s) ==
    CASE s = SeverityCritical -> 0
      [] s = SeverityHigh -> 1
      [] s = SeverityMedium -> 2
      [] s = SeverityLow -> 3
      [] s = SeverityInformational -> 4
      [] s = SeverityOptimization -> 5
      [] OTHER -> 6

Finding(id, source, check, title, severity, confidence, path, lines, swc) ==
    [ID |-> id, Source |-> source, Check |-> check, Title |-> title,
     Severity |-> severity, Confidence |-> confidence, File |-> path,
     Lines |-> lines, SWCRef |-> swc]

-----------------------------------------------------------------------------
(* checks: shared helpers *)

\* extractFunctionName: the text after the first "function " up to "(" or " ".
extractFunctionName(line) ==
    LET start == Index(line, "function ") + Len("function ")
        rest  == SubSeq(line, start, Len(line))
        ends  == {i \in 1..Len(rest) : Char(rest, i) \in {"(", " "}}
    IN  IF ends = {} THEN rest
        ELSE SubSeq(rest, 1, (CHOOSE i \in ends : \A j \in ends : i <= j) - 1)

IsLineComment(trimmed) == HasPrefix(trimmed, "//")

-----------------------------------------------------------------------------
(* checks/reentrancy.go *)

externalCallPatterns == <<".call{", ".call(", ".delegatecall(", ".transfer(", ".send(">>

stateChangePatterns == <<"balances[", "balanceOf[", "= 0;", "-= ", "+= ">>

\* The var block of checkReentrancyInFile before the first line is read.
\* (The slice `lines` only accumulates the text read and is never used.)
ReentInit ==
    [findings |-> <<>>, inFunction |-> FALSE, functionName |-> "",
     sawExternalCall |-> FALSE, callLine |-> 0, hasGuard |-> FALSE,
     lineNum |-> 0, pos |-> "scan", err |-> FALSE]

IsFunctionLine(trimmed) == Contains(trimmed, "function ") /\ Contains(trimmed, "(")

\* No line closes the construct.
IsClosingBraceNever(trimmed) == FALSE

\* if trimmed == "}": the line that resets inFunction and sawExternalCall
IsClosingBrace(trimmed) == trimmed = "}"

GuardSignalDropMutex(trimmed) ==
    Contains(trimmed, "nonReentrant") \/ Contains(trimmed, "ReentrancyGuard")

GuardSignal(trimmed) ==
    \/ Contains(trimmed, "nonReentrant")
    \/ Contains(trimmed, "ReentrancyGuard")
    \/ Contains(trimmed, "mutex")

ExternalCallSignal(trimmed) ==
    \E i \in 1..Len(externalCallPatterns) :
        Contains(trimmed, externalCallPatterns[i]) /\ ~IsLineComment(trimmed)

\* One finding per matching pattern: the inner loop without its break.
StateChangeEmitNoBreak(trimmed) ==
    Cardinality({i \in 1..Len(stateChangePatterns) :
        Contains(trimmed, stateChangePatterns[i]) /\ ~IsLineComment(trimmed)})

\* Findings the pattern loop appends for one line: it breaks at the first match.
StateChangeEmit(trimmed) ==
    IF \E i \in 1..Len(stateChangePatterns) :
            Contains(trimmed, stateChangePatterns[i]) /\ ~IsLineComment(trimmed)
    THEN 1 ELSE 0

\* The finding with the mutation line put first.
ReentrancyFindingMutationFirst(n, path, callLine, lineNum) ==
    Finding("CUSTOM-REENTRANT-" \o Itoa(n), "custom", "custom-reentrancy-ordering",
            "State Change After External Call (Reentrancy Risk)",
            SeverityHigh, "Medium", path, <<lineNum, callLine>>, "SWC-107")

ReentrancyFinding(n, path, callLine, lineNum) ==
    Finding("CUSTOM-REENTRANT-" \o Itoa(n), "custom", "custom-reentrancy-ordering",
            "State Change After External Call (Reentrancy Risk)",
            SeverityHigh, "Medium", path, <<callLine, lineNum>>, "SWC-107")

\* One iteration of the scanner loop of checkReentrancyInFile.
ReentrancyStep(st, path, line) ==
    LET lineNum == st.lineNum + 1
        trimmed == TrimSpace(line)
        isFn    == IsFunctionLine(trimmed)
        inFn    == isFn \/ st.inFunction
        saw0    == IF isFn THEN FALSE ELSE st.sawExternalCall
        guard0  == IF isFn THEN FALSE ELSE st.hasGuard
        fname   == IF isFn THEN extractFunctionName(trimmed) ELSE st.functionName
    IN  IF ~inFn
        THEN [st EXCEPT !.lineNum = lineNum]
        ELSE
            LET guard == guard0 \/ GuardSignal(trimmed)
                call  == ExternalCallSignal(trimmed)
                saw   == saw0 \/ call
                cl    == IF call THEN lineNum ELSE st.callLine
                k     == IF saw /\ ~guard THEN StateChangeEmit(trimmed) ELSE 0
                new   == [i \in 1..k |->
                            ReentrancyFinding(Len(st.findings) + i, path, cl, lineNum)]
                close == IsClosingBrace(trimmed)
            IN  [st EXCEPT !.lineNum = lineNum,
                           !.findings = st.findings \o new,
                           !.inFunction = ~close,
                           !.functionName = fname,
                           !.sawExternalCall = saw /\ ~close,
                           !.callLine = cl,
                           !.hasGuard = guard]

RECURSIVE ReentrancyScan(_, _, _)
ReentrancyScan(st, path, lines) ==
    IF lines = <<>> THEN st
    ELSE ReentrancyScan(ReentrancyStep(st, path, Head(lines)), path, Tail(lines))

\* checkReentrancyInFile: (findings, err)
checkReentrancyInFile(f) ==
    IF ~f.readable THEN [findings |-> <<>>, err |-> TRUE]
    ELSE [findings |-> ReentrancyScan(ReentInit, f.path, f.lines).findings, err |-> f.tooLong]


-----------------------------------------------------------------------------
(* checks/access_control.go *)

sensitivePatterns ==
    << [keyword |-> "mint",              severity |-> SeverityCritical],
       [keyword |-> "burn",              severity |-> SeverityHigh],
       [keyword |-> "pause",             severity |-> SeverityHigh],
       [keyword |-> "unpause",           severity |-> SeverityHigh],
       [keyword |-> "upgradeTo",         severity |-> SeverityCritical],
       [keyword |-> "upgradeToAndCall",  severity |-> SeverityCritical],
       [keyword |-> "setOwner",          severity |-> SeverityCritical],
       [keyword |-> "transferOwnership", severity |-> SeverityHigh],
       [keyword |-> "withdraw",          severity |-> SeverityHigh],
       [keyword |-> "selfdestruct",      severity |-> SeverityCritical] >>

accessModifiers ==
    <<"onlyOwner", "onlyRole", "onlyAdmin", "onlyMinter", "onlyPauser",
      "requiresAuth", "restricted", "auth", "isOwner">>

\* The var block of checkAccessControlInFile before the first line is read.
AccessInit == [findings |-> <<>>, lineNum |-> 0, pos |-> "scan", err |-> FALSE]

\* The line is lowered; the keyword is searched as written in the catalog.
containsFunctionNamed(line, keyword) ==
    LET lower == ToLower(line)
        idx   == Index(lower, "function " \o keyword)
        after == SubSeq(lower, idx + Len("function ") + Len(keyword), Len(lower))
    IN  /\ idx # 0
        /\ \/ HasPrefix(after, "(")
           \/ (Len(after) > 0 /\ Contains(Uppers, Char(after, 1)))

hasAccessModifier(line) ==
    LET lower == ToLower(line)
    IN  \E i \in 1..Len(accessModifiers) : Contains(lower, ToLower(accessModifiers[i]))

IsSkippedComment(trimmed) == HasPrefix(trimmed, "//") \/ HasPrefix(trimmed, "*")

RestrictedVisibility(trimmed) ==
    Contains(trimmed, " internal ") \/ Contains(trimmed, " private ")

\* The guard checks skipped: every matched keyword is reported.
SensitiveHitIgnoreGuards(trimmed, i) ==
    containsFunctionNamed(trimmed, sensitivePatterns[i].keyword)

\* Whether catalog entry i yields a finding on this declaration line.
SensitiveHit(trimmed, i) ==
    /\ containsFunctionNamed(trimmed, sensitivePatterns[i].keyword)
    /\ ~hasAccessModifier(trimmed)
    /\ ~RestrictedVisibility(trimmed)

AccessFinding(n, path, trimmed, severity, lineNum) ==
    Finding("CUSTOM-ACCESS-" \o Itoa(n), "custom", "custom-missing-access-control",
            "Missing Access Control on " \o extractFunctionName(trimmed) \o "()",
            severity, "Medium", path, <<lineNum>>, "SWC-105")

\* One iteration of the scanner loop of checkAccessControlInFile.
AccessStep(st, path, line) ==
    LET lineNum == st.lineNum + 1
        trimmed == TrimSpace(line)
        N       == Len(sensitivePatterns)
        \* the catalog loop: appended[i] = findings after entries 1..i
        appended[i \in 0..N] ==
            IF i = 0 THEN st.findings
            ELSE IF SensitiveHit(trimmed, i)
                 THEN Append(appended[i - 1],
                             AccessFinding(Len(appended[i - 1]) + 1, path, trimmed,
                                           sensitivePatterns[i].severity, lineNum))
                 ELSE appended[i - 1]
    IN  IF IsSkippedComment(trimmed) \/ ~Contains(trimmed, "function ")
        THEN [st EXCEPT !.lineNum = lineNum]
        ELSE [st EXCEPT !.lineNum = lineNum, !.findings = appended[N]]

RECURSIVE AccessScan(_, _, _)
AccessScan(st, path, lines) ==
    IF lines = <<>> THEN st
    ELSE AccessScan(AccessStep(st, path, Head(lines)), path, Tail(lines))

\* checkAccessControlInFile: (findings, err)
checkAccessControlInFile(f) ==
    IF ~f.readable THEN [findings |-> <<>>, err |-> TRUE]
    ELSE [findings |-> AccessScan(AccessInit, f.path, f.lines).findings, err |-> f.tooLong]


-----------------------------------------------------------------------------
(* checks/integer_overflow.go *)

\* strings.Fields: the maximal runs of non-space characters.
RECURSIVE Fields(_)
Fields(s) ==
    LET t == TrimLeftSpace(s)
        spaces == {i \in 1..Len(t) : IsSpace(Char(t, i))}
        cut == IF spaces = {} THEN Len(t) + 1
               ELSE CHOOSE i \in spaces : \A j \in spaces : i <= j
    IN  IF t = "" THEN <<>>
        ELSE <<SubSeq(t, 1, cut - 1)>> \o Fields(SubSeq(t, cut, Len(t)))

\* strings.Split(s, sep) for a one-character separator.
RECURSIVE Split(_, _)
Split(s, sep) ==
    LET i == Index(s, sep)
    IN  IF i = 0 THEN <<s>>
        ELSE <<SubSeq(s, 1, i - 1)>> \o Split(SubSeq(s, i + 1, Len(s)), sep)

RECURSIVE TrimLeftSet(_, _)
TrimLeftSet(s, cutset) ==
    IF s # "" /\ Contains(cutset, Char(s, 1))
    THEN TrimLeftSet(SubSeq(s, 2, Len(s)), cutset) ELSE s

RECURSIVE TrimRightSet(_, _)
TrimRightSet(s, cutset) ==
    IF s # "" /\ Contains(cutset, Char(s, Len(s)))
    THEN TrimRightSet(SubSeq(s, 1, Len(s) - 1), cutset) ELSE s

TrimSet(s, cutset) == TrimRightSet(TrimLeftSet(s, cutset), cutset)

RECURSIVE DigitPrefixValue(_, _)
DigitPrefixValue(s, acc) ==
    IF s # "" /\ IsDigit(Char(s, 1))
    THEN DigitPrefixValue(SubSeq(s, 2, Len(s)), acc * 10 + DigitVal(Char(s, 1)))
    ELSE acc

\* fmt.Sscanf(s, "%d", &v): an optional sign and the leading digits; when the
\* text does not start with a number the scan fails and v keeps its old value.
Sscanf(s, old) ==
    LET t      == TrimLeftSpace(s)
        signed == t # "" /\ Char(t, 1) \in {"+", "-"}
        body   == IF signed THEN SubSeq(t, 2, Len(t)) ELSE t
        mag    == DigitPrefixValue(body, 0)
    IN  IF body = "" \/ ~IsDigit(Char(body, 1)) THEN old
        ELSE IF signed /\ Char(t, 1) = "-" THEN 0 - mag ELSE mag

\* extractSolidityVersion: the loop over the fields of the pragma line; major
\* and minor are the named results and keep their values between fields.
RECURSIVE VersionLoop(_, _, _)
VersionLoop(parts, major, minor) ==
    IF parts = <<>> THEN <<0, 8>>
    ELSE
        LET cleaned == TrimSet(TrimLeftSet(Head(parts), "^>=<~"), ";")
            nums    == Split(cleaned, ".")
        IN  IF Len(nums) >= 2
            THEN LET mj == Sscanf(nums[1], major)
                     mn == Sscanf(nums[2], minor)
                 IN  IF mj = 0 /\ mn > 0 THEN <<mj, mn>>
                     ELSE VersionLoop(Tail(parts), mj, mn)
            ELSE VersionLoop(Tail(parts), major, minor)

extractSolidityVersion(pragma) == VersionLoop(Fields(pragma), 0, 0)

arithmeticOps == <<" + ", " - ", " * ", " / ", " % ", "++", "--", "+=", "-=", "*=", "/=">>

containsArithmetic(line) ==
    \E i \in 1..Len(arithmeticOps) : Contains(line, arithmeticOps[i])

\* The var block of checkIntegerOverflowInFile before the first line is read:
\* Go zero values, so the version starts as 0.0.
OverflowInit ==
    [findings |-> <<>>, lineNum |-> 0, solidityMajor |-> 0, solidityMinor |-> 0,
     inUnchecked |-> FALSE, uncheckedLine |-> 0, pos |-> "scan", err |-> FALSE]

\* The finding with its line counted from 0.
OverflowFindingZeroBased(n, path, lineNum) ==
    Finding("CUSTOM-OVERFLOW-" \o Itoa(n), "custom", "custom-integer-overflow",
            "Potential Integer Overflow (Solidity < 0.8)",
            SeverityHigh, "Medium", path, <<lineNum - 1>>, "SWC-101")

OverflowFinding(n, path, lineNum) ==
    Finding("CUSTOM-OVERFLOW-" \o Itoa(n), "custom", "custom-integer-overflow",
            "Potential Integer Overflow (Solidity < 0.8)",
            SeverityHigh, "Medium", path, <<lineNum>>, "SWC-101")

UncheckedFinding(n, path, uncheckedLine, lineNum) ==
    Finding("CUSTOM-UNCHECKED-" \o Itoa(n), "custom", "custom-unchecked-arithmetic",
            "Arithmetic Inside unchecked{} Block",
            SeverityLow, "High", path, <<uncheckedLine, lineNum>>, "SWC-101")

\* One iteration of the scanner loop of checkIntegerOverflowInFile.
OverflowStep(st, path, line) ==
    LET lineNum == st.lineNum + 1
        trimmed == TrimSpace(line)
        version == IF HasPrefix(trimmed, "pragma solidity")
                   THEN extractSolidityVersion(trimmed)
                   ELSE <<st.solidityMajor, st.solidityMinor>>
        major   == version[1]
        minor   == version[2]
        opens   == trimmed = "unchecked {" \/ trimmed = "unchecked{"
        inU0    == opens \/ st.inUnchecked
        uline   == IF opens THEN lineNum ELSE st.uncheckedLine
        inU     == inU0 /\ ~(trimmed = "}")
        f1      == IF /\ major = 0 /\ minor < 8
                      /\ containsArithmetic(trimmed)
                      /\ ~Contains(trimmed, "SafeMath")
                      /\ ~IsLineComment(trimmed)
                   THEN Append(st.findings,
                               OverflowFinding(Len(st.findings) + 1, path, lineNum))
                   ELSE st.findings
        f2      == IF /\ major = 0 /\ minor >= 8 /\ inU
                      /\ containsArithmetic(trimmed)
                      /\ ~IsLineComment(trimmed)
                   THEN Append(f1, UncheckedFinding(Len(f1) + 1, path, uline, lineNum))
                   ELSE f1
    IN  [st EXCEPT !.lineNum = lineNum, !.findings = f2,
                   !.solidityMajor = major, !.solidityMinor = minor,
                   !.inUnchecked = inU, !.uncheckedLine = uline]

RECURSIVE OverflowScan(_, _, _)
OverflowScan(st, path, lines) ==
    IF lines = <<>> THEN st
    ELSE OverflowScan(OverflowStep(st, path, Head(lines)), path, Tail(lines))

\* checkIntegerOverflowInFile: (findings, err)
checkIntegerOverflowInFile(f) ==
    IF ~f.readable THEN [findings |-> <<>>, err |-> TRUE]
    ELSE [findings |-> OverflowScan(OverflowInit, f.path, f.lines).findings, err |-> f.tooLong]


-----------------------------------------------------------------------------
(* checks/helpers.go and the three Check* entry points *)

\* filepath.Ext: the suffix of the last path element from its final dot.
Ext(path) ==
    LET dots    == {i \in 1..Len(path) : Char(path, i) = "."}
        slashes == {i \in 1..Len(path) : Char(path, i) = "/"}
        lastDot == IF dots = {} THEN 0 ELSE CHOOSE i \in dots : \A j \in dots : j <= i
    IN  IF lastDot = 0 \/ (\E j \in slashes : j > lastDot) THEN ""
        ELSE SubSeq(path, lastDot, Len(path))

RECURSIVE WalkSol(_)
WalkSol(entries) ==
    IF entries = <<>> THEN <<>>
    ELSE IF Ext(Head(entries).path) = ".sol"
         THEN <<Head(entries)>> \o WalkSol(Tail(entries))
         ELSE WalkSol(Tail(entries))

\* solidityFiles: a target is [path, isDir, entries]; entries are the regular
\* files below it in walk order (the file itself when it is no directory).
solidityFiles(tgt, statFails) ==
    IF statFails THEN [files |-> <<>>, err |-> TRUE]
    ELSE IF ~tgt.isDir THEN [files |-> tgt.entries, err |-> FALSE]
    ELSE [files |-> WalkSol(tgt.entries), err |-> FALSE]

checkInFile(d, f) ==
    CASE d = 1 -> checkReentrancyInFile(f)
      [] d = 2 -> checkAccessControlInFile(f)
      [] d = 3 -> checkIntegerOverflowInFile(f)

RECURSIVE CheckFilesKeepScanned(_, _, _)
\* A file error ends the loop and the findings collected so far are returned.
CheckFilesKeepScanned(d, files, findings) ==
    IF files = <<>> THEN [findings |-> findings, err |-> FALSE]
    ELSE LET r == checkInFile(d, Head(files))
         IN  IF r.err THEN [findings |-> findings, err |-> FALSE]
             ELSE CheckFilesKeepScanned(d, Tail(files), findings \o r.findings)

\* The loop over the files: the first file error discards everything.
RECURSIVE CheckFiles(_, _, _)
CheckFiles(d, files, findings) ==
    IF files = <<>> THEN [findings |-> findings, err |-> FALSE]
    ELSE LET r == checkInFile(d, Head(files))
         IN  IF r.err THEN [findings |-> <<>>, err |-> TRUE]
             ELSE CheckFiles(d, Tail(files), findings \o r.findings)

\* customChecks[d].fn(target): CheckReentrancy, CheckAccessControl, CheckIntegerOverflow
RunCustomCheck(d, tgt, statFails) ==
    LET sf == solidityFiles(tgt, statFails)
    IN  IF sf.err THEN [findings |-> <<>>, err |-> TRUE]
        ELSE CheckFiles(d, sf.files, <<>>)

CheckReentrancy(tgt, statFails) == RunCustomCheck(1, tgt, statFails)
CheckAccessControl(tgt, statFails) == RunCustomCheck(2, tgt, statFails)
CheckIntegerOverflow(tgt, statFails) == RunCustomCheck(3, tgt, statFails)

customChecks == <<"reentrancy", "access-control", "integer-overflow">>

-----------------------------------------------------------------------------
(* analyzer/analyzer.go *)

\* The key without the file.
DedupKeyNoFile(f) ==
    IF Len(f.Lines) > 0 THEN f.SWCRef \o "|" \o Itoa(f.Lines[1]) ELSE f.SWCRef

\* The dedup key: SWCRef + "|" + File, then "|" and the first line when present.
DedupKey(f) ==
    LET key == f.SWCRef \o "|" \o f.File
    IN  IF Len(f.Lines) > 0 THEN key \o "|" \o Itoa(f.Lines[1]) ELSE key

RECURSIVE DedupLoopKeepLast(_, _, _)
\* Last occurrence wins: a later finding with a seen key replaces the kept one.
DedupLoopKeepLast(findings, seen, result) ==
    IF findings = <<>> THEN result
    ELSE LET f == Head(findings)
             kept == SelectSeq(result, LAMBDA g : DedupKey(g) # DedupKey(f))
         IN  DedupLoopKeepLast(Tail(findings), seen \cup {DedupKey(f)}, Append(kept, f))

RECURSIVE DedupLoop(_, _, _)
DedupLoop(findings, seen, result) ==
    IF findings = <<>> THEN result
    ELSE LET f == Head(findings)
         IN  IF DedupKey(f) \in seen
             THEN DedupLoop(Tail(findings), seen, result)
             ELSE DedupLoop(Tail(findings), seen \cup {DedupKey(f)}, Append(result, f))

\* A pass that drops only the first finding whose key was seen before.
deduplicateOnce(findings) ==
    LET dups == {i \in 1..Len(findings) :
                    \E j \in 1..(i - 1) : DedupKey(findings[j]) = DedupKey(findings[i])}
    IN  IF dups = {} THEN findings
        ELSE LET m == CHOOSE i \in dups : \A j \in dups : i <= j
             IN  SubSeq(findings, 1, m - 1) \o SubSeq(findings, m + 1, Len(findings))

deduplicate(findings) == DedupLoop(findings, {}, <<>>)

\* The comparison without the file tie-break.
lessRankOnly(x, y) == SeverityRank(x.Severity) < SeverityRank(y.Severity)

\* The less function handed to sort.Slice.
less(x, y) ==
    LET ri == SeverityRank(x.Severity)
        rj == SeverityRank(y.Severity)
    IN  IF ri # rj THEN ri < rj ELSE StrLess(x.File, y.File)

\* The swap that only copies element j over element i.
SwapOverwrite(a, i, j) == [a EXCEPT ![i] = a[j]]

\* data.Swap(i, j) of the slice being sorted
Swap(a, i, j) == [a EXCEPT ![i] = a[j], ![j] = a[i]]

RECURSIVE SiftDown(_, _, _)
\* for j := i; j > a && less(j, j-1); j-- { swap(j, j-1) }
SiftDown(d, j, lo) ==
    IF j > lo /\ less(d[j], d[j - 1]) THEN SiftDown(Swap(d, j, j - 1), j - 1, lo) ELSE d

RECURSIVE InsertionSort(_, _, _, _)
\* insertionSort on the range lo..hi, from element i on
InsertionSort(d, lo, hi, i) ==
    IF i > hi THEN d ELSE InsertionSort(SiftDown(d, i, lo), lo, hi, i + 1)

\* order2: the two indices in order, and the swap count
order2(d, x, y, swaps) ==
    IF less(d[y], d[x]) THEN <<y, x, swaps + 1>> ELSE <<x, y, swaps>>

\* median: the index of the median of three, and the swap count
median(d, x, y, z) ==
    LET o1 == order2(d, x, y, 0)
        o2 == order2(d, o1[2], z, o1[3])
        o3 == order2(d, o1[1], o2[1], o2[3])
    IN  <<o3[2], o3[3]>>

\* choosePivot on a range of fewer than 50 elements: the median of the three
\* quarter points when it has 8 or more; increasing: no swap was needed.
choosePivot(d, lo, hi) ==
    LET l == hi - lo + 1
        q == l \div 4
        m == IF l >= 8 THEN median(d, lo + q, lo + q * 2, lo + q * 3)
             ELSE <<lo + q * 2, 0>>
    IN  [pivot |-> m[1], increasing |-> m[2] = 0]

\* partialInsertionSort on a range of fewer than 50 elements: nothing is
\* moved; true when the range is already sorted.
partialInsertionSort(d, lo, hi) ==
    \A i \in (lo + 1)..hi : ~less(d[i], d[i - 1])

RECURSIVE ScanUp(_, _, _, _)
\* for i <= j && less(i, a) { i++ }
ScanUp(d, i, j, lo) ==
    IF i <= j /\ less(d[i], d[lo]) THEN ScanUp(d, i + 1, j, lo) ELSE i

RECURSIVE ScanDown(_, _, _, _)
\* for i <= j && !less(j, a) { j-- }
ScanDown(d, i, j, lo) ==
    IF i <= j /\ ~less(d[j], d[lo]) THEN ScanDown(d, i, j - 1, lo) ELSE j

RECURSIVE PartitionLoop(_, _, _, _)
PartitionLoop(d, i, j, lo) ==
    LET i1 == ScanUp(d, i, j, lo)
        j1 == ScanDown(d, i1, j, lo)
    IN  IF i1 > j1 THEN [data |-> Swap(d, j1, lo), mid |-> j1]
        ELSE PartitionLoop(Swap(d, i1, j1), i1 + 1, j1 - 1, lo)

\* partition: the pivot goes to the front of the range, smaller elements are
\* gathered before it and it is put between the two parts.
partition(d, lo, hi, pivot) ==
    LET d1 == Swap(d, lo, pivot)
        i  == ScanUp(d1, lo + 1, hi, lo)
        j  == ScanDown(d1, i, hi, lo)
    IN  IF i > j THEN [data |-> Swap(d1, j, lo), mid |-> j]
        ELSE PartitionLoop(Swap(d1, i, j), i + 1, j - 1, lo)

RECURSIVE pdqsort(_, _, _)
\* pdqsort as sort.Slice runs it: ranges of up to 12 elements are sorted by
\* insertion; a longer range is left alone when it is found sorted, else
\* partitioned around the chosen pivot and its two parts sorted.  The slices
\* of the model are partitioned at most once per range, so the steps pdqsort
\* takes after an unbalanced partition (breakPatterns, partitionEqual,
\* heapSort) do not arise.
pdqsort(d, lo, hi) ==
    IF hi - lo + 1 <= 12 THEN InsertionSort(d, lo, hi, lo + 1)
    ELSE LET cp == choosePivot(d, lo, hi)
         IN  IF cp.increasing /\ partialInsertionSort(d, lo, hi) THEN d
             ELSE LET pt == partition(d, lo, hi, cp.pivot)
                  IN  pdqsort(pdqsort(pt.data, lo, pt.mid - 1), pt.mid + 1, hi)

\* sort.Slice(allFindings, less)
sortSlice(a) == pdqsort(a, 1, Len(a))

\* The findings at or above the severity are counted.
CountSeverityAtOrAbove(findings, sev) ==
    Cardinality({i \in 1..Len(findings) :
                    SeverityRank(findings[i].Severity) <= SeverityRank(sev)})

\* The number of times the loop of buildSummary takes the case of sev.
CountSeverity(findings, sev) ==
    Cardinality({i \in 1..Len(findings) : findings[i].Severity = sev})

buildSummary(findings) ==
    [Total |-> Len(findings),
     Critical |-> CountSeverity(findings, SeverityCritical),
     High |-> CountSeverity(findings, SeverityHigh),
     Medium |-> CountSeverity(findings, SeverityMedium),
     Low |-> CountSeverity(findings, SeverityLow),
     Informational |-> CountSeverity(findings, SeverityInformational),
     Optimization |-> CountSeverity(findings, SeverityOptimization)]

NoReport == [Target |-> "", Findings |-> <<>>, Summary |-> buildSummary(<<>>)]


-----------------------------------------------------------------------------
(* Inputs: source lines, files, targets and external findings *)

SeqsUpTo(S, n) == UNION {[1..k -> S] : k \in 0..n}

\* A file on disk: its lines as bufio.Scanner delivers them.  tooLong: after
\* these lines the file goes on with a line longer than the scanner's buffer
\* (bufio.MaxScanTokenSize), at which Scan stops with ErrTooLong.
SourceFile(path, lines) ==
    [path |-> path, lines |-> lines, readable |-> TRUE, tooLong |-> FALSE]

LongLineFile(path, lines) == [SourceFile(path, lines) EXCEPT !.tooLong = TRUE]

UnreadableFile == [path |-> "a.sol", lines |-> <<>>, readable |-> FALSE, tooLong |-> FALSE]

ReentLines ==
    { "function withdraw() public {",
      "function pay() external nonReentrant {",
      "    msg.sender.call{value: amount}(data);",
      "balances[msg.sender] = 0;",
      "payable(to).transfer(balances[to]);",
      "require(!mutex);",
      "// total -= amount;",
      "}" }

AccessLines ==
    { "function mint(address to, uint256 amount) public {",
      "function burn(uint256 amount) public {",
      "function pause() public {",
      "function unpause() public {",
      "function upgradeTo(address impl) public {",
      "function upgradeToAndCall(address impl) public {",
      "function setOwner(address o) public {",
      "function transferOwnership(address o) public {",
      "function withdraw(uint256 amount) public {",
      "function selfdestruct() public {",
      "function mint(address to) public onlyOwner {",
      "    function mint(address to) internal {",
      "function burn(address authority) public {",
      "function safeMint(address to) public {",
      "function mintTokens(address to) public {",
      "function withdrawAll() public {",
      "// function mint(address to) public {",
      " * function burn(uint256 amount) public {",
      "/* function pause() public {} */",
      "uint256 public minted;" }

OverflowLines ==
    { "pragma solidity 0.7.0;",
      "pragma solidity ^0.8.0;",
      "pragma solidity >=0.4.22 <0.9.0;",
      "pragma solidity latest;",
      "pragma solidity 0.0.1;",
      "uint256 c = a + b;",
      "c = SafeMath.add(a, b) + 1;",
      "// c = a - b;",
      "unchecked {",
      "}",
      "\f}" }

ReentFiles ==
    {SourceFile("a.sol", l) : l \in SeqsUpTo(ReentLines, MaxReentLines)} \cup {UnreadableFile}
        \cup {LongLineFile("a.sol", l) : l \in SeqsUpTo(ReentLines, 1)}

AccessFiles ==
    {SourceFile("a.sol", l) : l \in SeqsUpTo(AccessLines, MaxAccessLines)} \cup {UnreadableFile}
        \cup {LongLineFile("a.sol", l) : l \in SeqsUpTo(AccessLines, 1)}

OverflowFiles ==
    {SourceFile("a.sol", l) : l \in SeqsUpTo(OverflowLines, MaxOverflowLines)} \cup {UnreadableFile}
        \cup {LongLineFile("a.sol", l) : l \in SeqsUpTo(OverflowLines, 1)}

NoFile == SourceFile("", <<>>)

NoTarget == [path |-> "", isDir |-> FALSE, entries |-> <<>>]

-----------------------------------------------------------------------------
(* checkReentrancyInFile, line by line *)

\* No scorer call and no command in progress.
NoCalc == [fn |-> "", arg |-> <<>>, result |-> <<>>, pos |-> "idle"]

NoRun ==
    [pos |-> "idle", stat |-> "ok", noSlither |-> FALSE, failOn |-> "none",
     slitherCalled |-> FALSE, tmpJSON |-> FALSE, writeCalled |-> FALSE,
     score |-> 0, grade |-> "", err |-> ""]

CmdVars == <<calc, run>>

CmdIdle == calc = NoCalc /\ run = NoRun

Idle ==
    /\ target = NoTarget /\ statErr = {} /\ slitherFindings = <<>>
    /\ allFindings = <<>> /\ checkOut = <<>> /\ report = NoReport
    /\ retErr = FALSE /\ pc = "idle"

AnalyzeVars == <<target, statErr, slitherFindings, allFindings, checkOut, report, retErr, pc>>

InitReentrancy ==
    /\ file \in ReentFiles
    /\ reent = ReentInit /\ access = AccessInit /\ overflow = OverflowInit
    /\ Idle /\ CmdIdle

ReentrancyOpenFail ==
    /\ reent.pos = "scan" /\ ~file.readable
    /\ reent' = [reent EXCEPT !.pos = "done", !.err = TRUE]
    /\ UNCHANGED <<file, access, overflow, AnalyzeVars, CmdVars>>

ReentrancyScanLine ==
    /\ reent.pos = "scan" /\ file.readable /\ reent.lineNum < Len(file.lines)
    /\ reent' = ReentrancyStep(reent, file.path, file.lines[reent.lineNum + 1])
    /\ UNCHANGED <<file, access, overflow, AnalyzeVars, CmdVars>>

ReentrancyReturn ==
    /\ reent.pos = "scan" /\ file.readable /\ reent.lineNum = Len(file.lines)
    /\ reent' = [reent EXCEPT !.pos = "done", !.err = file.tooLong]
    /\ UNCHANGED <<file, access, overflow, AnalyzeVars, CmdVars>>

NextReentrancy == ReentrancyOpenFail \/ ReentrancyScanLine \/ ReentrancyReturn

SpecReentrancy == InitReentrancy /\ [][NextReentrancy]_vars

-----------------------------------------------------------------------------
(* checkAccessControlInFile, line by line *)

InitAccess ==
    /\ file \in AccessFiles
    /\ reent = ReentInit /\ access = AccessInit /\ overflow = OverflowInit
    /\ Idle /\ CmdIdle

AccessOpenFail ==
    /\ access.pos = "scan" /\ ~file.readable
    /\ access' = [access EXCEPT !.pos = "done", !.err = TRUE]
    /\ UNCHANGED <<file, reent, overflow, AnalyzeVars, CmdVars>>

AccessScanLine ==
    /\ access.pos = "scan" /\ file.readable /\ access.lineNum < Len(file.lines)
    /\ access' = AccessStep(access, file.path, file.lines[access.lineNum + 1])
    /\ UNCHANGED <<file, reent, overflow, AnalyzeVars, CmdVars>>

AccessReturn ==
    /\ access.pos = "scan" /\ file.readable /\ access.lineNum = Len(file.lines)
    /\ access' = [access EXCEPT !.pos = "done", !.err = file.tooLong]
    /\ UNCHANGED <<file, reent, overflow, AnalyzeVars, CmdVars>>

NextAccess == AccessOpenFail \/ AccessScanLine \/ AccessReturn

SpecAccess == InitAccess /\ [][NextAccess]_vars

-----------------------------------------------------------------------------
(* checkIntegerOverflowInFile, line by line *)

InitOverflow ==
    /\ file \in OverflowFiles
    /\ reent = ReentInit /\ access = AccessInit /\ overflow = OverflowInit
    /\ Idle /\ CmdIdle

OverflowOpenFail ==
    /\ overflow.pos = "scan" /\ ~file.readable
    /\ overflow' = [overflow EXCEPT !.pos = "done", !.err = TRUE]
    /\ UNCHANGED <<file, reent, access, AnalyzeVars, CmdVars>>

OverflowScanLine ==
    /\ overflow.pos = "scan" /\ file.readable /\ overflow.lineNum < Len(file.lines)
    /\ overflow' = OverflowStep(overflow, file.path, file.lines[overflow.lineNum + 1])
    /\ UNCHANGED <<file, reent, access, AnalyzeVars, CmdVars>>

OverflowReturn ==
    /\ overflow.pos = "scan" /\ file.readable /\ overflow.lineNum = Len(file.lines)
    /\ overflow' = [overflow EXCEPT !.pos = "done", !.err = file.tooLong]
    /\ UNCHANGED <<file, reent, access, AnalyzeVars, CmdVars>>

NextOverflow == OverflowOpenFail \/ OverflowScanLine \/ OverflowReturn

SpecOverflow == InitOverflow /\ [][NextOverflow]_vars

-----------------------------------------------------------------------------
(* The three detectors on one file, in the order of Analyze's customChecks *)

\* Lines that each detector reacts to.
DetectorLines ==
    { "pragma solidity ^0.8.0;",
      "pragma solidity 0.7.0;",
      "function withdraw(uint256 amount) public {",
      "    msg.sender.call{value: amount}(data);",
      "payable(to).transfer(balances[to]);",
      "balances[msg.sender] = 0;",
      "unchecked {",
      "uint256 c = a + b;",
      "\f}" }

DetectorFiles ==
    {SourceFile("a.sol", l) : l \in SeqsUpTo(DetectorLines, MaxDetectorLines)}
        \cup {UnreadableFile}
        \cup {LongLineFile("a.sol", l) : l \in SeqsUpTo(DetectorLines, 1)}

InitDetectors ==
    /\ file \in DetectorFiles
    /\ reent = ReentInit /\ access = AccessInit /\ overflow = OverflowInit
    /\ Idle /\ CmdIdle

\* for _, c := range customChecks: each check runs when the one before it
\* has returned, whether or not that one failed.
NextDetectors ==
    \/ NextReentrancy
    \/ reent.pos = "done" /\ NextAccess
    \/ access.pos = "done" /\ NextOverflow

SpecDetectors == InitDetectors /\ [][NextDetectors]_vars


-----------------------------------------------------------------------------
(* Analyze *)

\* A single file: the access-control, reentrancy and overflow detectors all
\* report; both reentrancy findings carry the call line 3 as their first line.
TargetFile ==
    [path |-> "a.sol", isDir |-> FALSE,
     entries |-> << SourceFile("a.sol",
        << "pragma solidity 0.7.0;",
           "function withdraw(uint256 amount) public {",
           "msg.sender.call{value: amount}(data);",
           "balances[msg.sender] -= amount;",
           "total = 0;" >>) >>]

\* A directory: two Solidity files and one file the walk filters out, in the
\* lexical order filepath.Walk visits them in.
TargetDir ==
    [path |-> "src", isDir |-> TRUE,
     entries |-> << SourceFile("src/a.sol", <<"function pause() public {">>),
                    SourceFile("src/b.sol",
                        << "pragma solidity ^0.8.0;",
                           "function mint(address to) public {",
                           "unchecked {",
                           "supply += 1;" >>),
                    SourceFile("src/notes.txt", <<"function burn() public {">>) >>]

\* A file no detector reports on.
TargetClean ==
    [path |-> "c.sol", isDir |-> FALSE,
     entries |-> << SourceFile("c.sol", <<"pragma solidity ^0.8.0;", "contract C {}">>) >>]

\* A file with an overlong line after its first two lines.
TargetLong ==
    [path |-> "d.sol", isDir |-> FALSE,
     entries |-> << LongLineFile("d.sol",
        << "pragma solidity 0.7.0;", "function mint(address to) public {" >>) >>]

\* Directories whose first file every detector reports on and whose second
\* file cannot be opened, or cannot be read to its end.
TargetOpenFails ==
    [path |-> "lib", isDir |-> TRUE,
     entries |-> << SourceFile("lib/a.sol",
                        << "pragma solidity 0.7.0;",
                           "function withdraw(uint256 amount) public {",
                           "msg.sender.call{value: amount}(data);",
                           "balances[msg.sender] -= amount;" >>),
                    [path |-> "lib/b.sol", lines |-> <<>>, readable |-> FALSE,
                     tooLong |-> FALSE] >>]

TargetReadFails ==
    [path |-> "pkg", isDir |-> TRUE,
     entries |-> << SourceFile("pkg/a.sol",
                        << "pragma solidity 0.7.0;",
                           "function withdraw(uint256 amount) public {",
                           "msg.sender.call{value: amount}(data);",
                           "balances[msg.sender] -= amount;" >>),
                    LongLineFile("pkg/b.sol", <<"function pause() public {">>) >>]

\* A directory of two files whose findings agree in check, cross-reference id
\* and line, and differ in the file.
TargetTwins ==
    [path |-> "twin", isDir |-> TRUE,
     entries |-> << SourceFile("twin/x.sol",
                        << "function pause() public {", "uint256 c = a + b;" >>),
                    SourceFile("twin/y.sol",
                        << "function mint(address to) public {", "total = a - b;" >>) >>]

\* A file in which two mutations follow one call and two arithmetic lines lie
\* in one unchecked block.
TargetRepeats ==
    [path |-> "r.sol", isDir |-> FALSE,
     entries |-> << SourceFile("r.sol",
        << "pragma solidity ^0.8.0;",
           "function withdraw(uint256 amount) public {",
           "unchecked {",
           "msg.sender.call{value: amount}(data);",
           "balances[msg.sender] -= amount;",
           "total += 1;" >>) >>]

Targets ==
    {TargetFile, TargetDir, TargetClean, TargetLong, TargetOpenFails, TargetReadFails,
     TargetTwins, TargetRepeats}

-----------------------------------------------------------------------------
(* parser: Parse, ParseBytes *)

\* swcRefs: detector names to SWC registry ids.
swcRefs ==
    [check \in {"reentrancy-eth", "reentrancy-no-eth", "reentrancy-benign", "tx-origin",
                "weak-prng", "timestamp", "unprotected-upgrade", "arbitrary-send-eth",
                "suicidal", "unchecked-transfer", "divide-before-multiply"} |->
        CASE check = "reentrancy-eth" -> "SWC-107"
          [] check = "reentrancy-no-eth" -> "SWC-107"
          [] check = "reentrancy-benign" -> "SWC-107"
          [] check = "tx-origin" -> "SWC-115"
          [] check = "weak-prng" -> "SWC-120"
          [] check = "timestamp" -> "SWC-116"
          [] check = "unprotected-upgrade" -> "SWC-112"
          [] check = "arbitrary-send-eth" -> "SWC-105"
          [] check = "suicidal" -> "SWC-106"
          [] check = "unchecked-transfer" -> "SWC-104"
          [] check = "divide-before-multiply" -> "SWC-101"]

\* mapImpact: Slither's impact string to a Severity, Informational by default.
mapImpact(impact) ==
    LET l == ToLower(impact)
    IN  CASE l = "critical" -> SeverityCritical
          [] l = "high" -> SeverityHigh
          [] l = "medium" -> SeverityMedium
          [] l = "low" -> SeverityLow
          [] l = "informational" -> SeverityInformational
          [] l = "optimization" -> SeverityOptimization
          [] OTHER -> SeverityInformational

\* strings.ReplaceAll: non-overlapping occurrences, left to right; an empty
\* old matches before every character and at the end.
RECURSIVE ReplaceAll(_, _, _)
ReplaceAll(s, old, new) ==
    IF old = ""
    THEN new \o (IF s = "" THEN ""
                 ELSE Char(s, 1) \o ReplaceAll(SubSeq(s, 2, Len(s)), old, new))
    ELSE IF s = "" THEN ""
    ELSE IF HasPrefix(s, old)
         THEN new \o ReplaceAll(SubSeq(s, Len(old) + 1, Len(s)), old, new)
    ELSE Char(s, 1) \o ReplaceAll(SubSeq(s, 2, Len(s)), old, new)

\* strings.Join
RECURSIVE Join(_, _)
Join(parts, sep) ==
    IF Len(parts) = 0 THEN ""
    ELSE IF Len(parts) = 1 THEN parts[1]
    ELSE parts[1] \o sep \o Join(Tail(parts), sep)

\* unicode.ToUpper on the ASCII letters.
UpperChar(c) == IF Contains(Lowers, c) THEN Char(Uppers, Index(Lowers, c)) ELSE c

\* formatTitle: "reentrancy-eth" becomes "Reentrancy Eth".
formatTitle(check) ==
    LET parts == Fields(ReplaceAll(check, "-", " "))
    IN  Join([i \in 1..Len(parts) |->
                 UpperChar(Char(parts[i], 1)) \o SubSeq(parts[i], 2, Len(parts[i]))], " ")

\* A DetectorElement, by its source_mapping.
DetectorElement(filename, lines) == [Filename |-> filename, Lines |-> lines]

SlitherDetector(check, impact, confidence, elements) ==
    [Check |-> check, Impact |-> impact, Confidence |-> confidence, Elements |-> elements]

\* ParseBytes: output is the decoded SlitherOutput; valid tells whether
\* json.Unmarshal accepts the bytes.  The error message is "" for nil.
ParseBytes(valid, output) ==
    IF ~valid THEN [findings |-> <<>>, err |-> "parsing slither JSON"]
    ELSE IF ~output.Success THEN [findings |-> <<>>, err |-> "slither analysis failed"]
    ELSE LET digits(n) == IF n < 10 THEN "00" \o Itoa(n)
                          ELSE IF n < 100 THEN "0" \o Itoa(n)
                          ELSE Itoa(n)
             convert(i) ==
                 LET d == output.Detectors[i]
                     first == Len(d.Elements) > 0
                 IN  Finding("SLITHER-" \o digits(i), "slither", d.Check,
                             formatTitle(d.Check), mapImpact(d.Impact), d.Confidence,
                             IF first THEN d.Elements[1].Filename ELSE "",
                             IF first THEN d.Elements[1].Lines ELSE <<>>,
                             IF d.Check \in DOMAIN swcRefs THEN swcRefs[d.Check] ELSE "")
         IN  [findings |-> [i \in 1..Len(output.Detectors) |-> convert(i)], err |-> ""]

\* Parse: readable tells whether os.ReadFile of the JSON file succeeds.
Parse(readable, valid, output) ==
    IF ~readable THEN [findings |-> <<>>, err |-> "reading slither output"]
    ELSE ParseBytes(valid, output)

Slither(id, check, severity, path, lines, swc) ==
    Finding(id, "slither", check, formatTitle(check), severity, "High", path, lines, swc)

\* External findings as the caller may pass them: they are not validated, so a
\* severity may be missing, a file or line list empty, and keys may repeat.
ExternalFindings ==
    { Slither("SLITHER-001", "reentrancy-eth", SeverityMedium, "a.sol", <<3, 4>>, "SWC-107"),
      Slither("SLITHER-002", "suicidal", SeverityCritical, "src/b.sol", <<9>>, "SWC-106"),
      Slither("SLITHER-003", "arbitrary-send-eth", SeverityLow, "src/b.sol", <<2>>, "SWC-105"),
      Slither("SLITHER-004", "solc-version", SeverityInformational, "", <<>>, ""),
      Slither("SLITHER-005", "naming-convention", "", "a.sol", <<>>, ""),
      Slither("SLITHER-006", "tx-origin", SeverityCritical, "a.sol", <<9>>, "SWC-115"),
      Slither("SLITHER-007", "reentrancy-benign", SeverityLow, "a.sol|3", <<>>, "SWC-107") }

\* A long external list: MaxSorted findings of one file with distinct lines,
\* all High but the k-th, which is Critical (none when k = 0).
ManyFindings(k) ==
    [i \in 1..MaxSorted |->
        Slither("SLITHER-" \o Itoa(100 + i), "reentrancy-eth",
                IF i = k THEN SeverityCritical ELSE SeverityHigh,
                "c.sol", <<i>>, "SWC-107")]

ManyExternal == {ManyFindings(k) : k \in 0..MaxSorted}

\* The detectors are functions of the target: their results on the targets of
\* the model, computed once.
CheckResults ==
    {[d |-> d, tgt |-> t, statFails |-> e, result |-> RunCustomCheck(d, t, e)] :
        d \in 1..Len(customChecks), t \in Targets, e \in BOOLEAN}

\* c.fn(target)
CallCheck(d, tgt, statFails) ==
    (CHOOSE r \in CheckResults : r.d = d /\ r.tgt = tgt /\ r.statFails = statFails).result

InitAnalyze ==
    /\ \/ /\ target \in Targets
          /\ statErr \in SUBSET (1..Len(customChecks))
          /\ slitherFindings \in SeqsUpTo(ExternalFindings, MaxExternal)
       \/ /\ target = TargetClean
          /\ statErr = {}
          /\ slitherFindings \in ManyExternal
    /\ allFindings = <<>> /\ checkOut = <<>> /\ report = NoReport
    /\ retErr = FALSE /\ pc = "start"
    /\ file = NoFile
    /\ reent = ReentInit /\ access = AccessInit /\ overflow = OverflowInit
    /\ CmdIdle

ScanVars == <<file, reent, access, overflow>>

\* allFindings := append(make(...), slitherFindings...)
AnalyzeStart ==
    /\ pc = "start"
    /\ allFindings' = slitherFindings
    /\ pc' = "checks"
    /\ UNCHANGED <<target, statErr, slitherFindings, checkOut, report, retErr, ScanVars, CmdVars>>

\* The error test inverted: only a failed check's (nil) findings are appended.
ContributionInverted(r) == IF r.err THEN r.findings ELSE <<>>

\* The findings a loop iteration appends: nothing when the check failed.
Contribution(r) == IF r.err THEN <<>> ELSE r.findings

\* One iteration of the loop over customChecks.
AnalyzeRunCheck ==
    /\ pc = "checks" /\ Len(checkOut) < Len(customChecks)
    /\ LET d == Len(checkOut) + 1
           r == CallCheck(d, target, d \in statErr)
       IN  /\ checkOut' = Append(checkOut, r)
           /\ allFindings' = allFindings \o Contribution(r)
    /\ UNCHANGED <<target, statErr, slitherFindings, report, retErr, pc, ScanVars, CmdVars>>

AnalyzeDeduplicate ==
    /\ pc = "checks" /\ Len(checkOut) = Len(customChecks)
    /\ allFindings' = deduplicate(allFindings)
    /\ pc' = "sort"
    /\ UNCHANGED <<target, statErr, slitherFindings, checkOut, report, retErr, ScanVars, CmdVars>>

AnalyzeSort ==
    /\ pc = "sort"
    /\ allFindings' = sortSlice(allFindings)
    /\ pc' = "report"
    /\ UNCHANGED <<target, statErr, slitherFindings, checkOut, report, retErr, ScanVars, CmdVars>>

AnalyzeReturn ==
    /\ pc = "report"
    /\ report' = [Target |-> target.path, Findings |-> allFindings,
                  Summary |-> buildSummary(allFindings)]
    /\ retErr' = FALSE
    /\ pc' = "done"
    /\ UNCHANGED <<target, statErr, slitherFindings, allFindings, checkOut, ScanVars, CmdVars>>

Next ==
    \/ AnalyzeStart
    \/ AnalyzeRunCheck
    \/ AnalyzeDeduplicate
    \/ AnalyzeSort
    \/ AnalyzeReturn

Init == InitAnalyze

Spec == Init /\ [][Next]_vars


-----------------------------------------------------------------------------
(* scorer: Score and Grade; the calls of the pure functions *)

MaxCount == 3
ScoreMargin == 2

\* Go's int on the 64-bit builds: a value is held as four 16-bit limbs, least
\* significant first, in two's complement.  Sums and products wrap at 2^64.

\* The limbs of x after carrying; the carry out of the last limb is dropped.
Int64Carry(x) ==
    LET s2 == x[2] + (x[1] \div 65536)
        s3 == x[3] + (s2 \div 65536)
        s4 == x[4] + (s3 \div 65536)
    IN  <<x[1] % 65536, s2 % 65536, s3 % 65536, s4 % 65536>>

\* The int64 of an integer n with -2^31 <= n < 2^31.
ToInt64(n) ==
    IF n >= 0 THEN <<n % 65536, n \div 65536, 0, 0>>
    ELSE LET m == (n + 2147483647) + 1
         IN  <<m % 65536, (m \div 65536) + 32768, 65535, 65535>>

IsNegative64(x) == x[4] >= 32768

\* The integer of an int64 that lies between -2^31 and 2^31 - 1.
FromInt64(x) ==
    IF IsNegative64(x) THEN (x[2] - 65536) * 65536 + x[1]
    ELSE x[2] * 65536 + x[1]

\* x + y
Add64(x, y) == Int64Carry([i \in 1..4 |-> x[i] + y[i]])

\* x * k for a constant 0 <= k < 2^14
Mul64(x, k) == Int64Carry([i \in 1..4 |-> x[i] * k])

\* x < y as signed integers
Less64(x, y) ==
    IF IsNegative64(x) # IsNegative64(y) THEN IsNegative64(x)
    ELSE \E i \in 1..4 : x[i] < y[i] /\ \A j \in (i + 1)..4 : x[j] = y[j]

Score(rep) ==
    LET s1 == Add64(ToInt64(0), Mul64(rep.Summary.Critical, 40))
        s2 == Add64(s1, Mul64(rep.Summary.High, 20))
        s3 == Add64(s2, Mul64(rep.Summary.Medium, 10))
        score == Add64(s3, Mul64(rep.Summary.Low, 3))
    IN  IF Less64(ToInt64(100), score) THEN ToInt64(100) ELSE score

\* The boundaries taken inclusively.
GradeInclusive(score) ==
    CASE score <= 10 -> "A"
      [] score > 10 /\ score <= 25 -> "B"
      [] score > 25 /\ score <= 50 -> "C"
      [] score > 50 /\ score <= 75 -> "D"
      [] OTHER -> "F"

Grade(score) ==
    IF score < 10 THEN "A"
    ELSE IF score < 25 THEN "B"
    ELSE IF score < 50 THEN "C"
    ELSE IF score < 75 THEN "D"
    ELSE "F"

\* A Summary with its counts as Go ints.
SummaryOf(total, c, h, m, l, i, o) ==
    [Total |-> ToInt64(total), Critical |-> ToInt64(c), High |-> ToInt64(h),
     Medium |-> ToInt64(m), Low |-> ToInt64(l),
     Informational |-> ToInt64(i), Optimization |-> ToInt64(o)]

\* Reports as Score reads them: only the Summary matters to it.
ScoredReport(summary) == [Target |-> "a.sol", Findings |-> <<>>, Summary |-> summary]

\* The report Analyze returned, as the *AnalysisReport handed to Score.
Int64Report(rep) ==
    [rep EXCEPT !.Summary = SummaryOf(rep.Summary.Total, rep.Summary.Critical,
                    rep.Summary.High, rep.Summary.Medium, rep.Summary.Low,
                    rep.Summary.Informational, rep.Summary.Optimization)]

Summaries ==
    {SummaryOf(t, c, h, m, l, i, o) :
        t \in {0, 1}, c \in 0..MaxCount, h \in 0..MaxCount, m \in 0..MaxCount,
        l \in 0..MaxCount, i \in 0..1, o \in 0..1}
    \cup {SummaryOf(10, 10, 0, 0, 0, 0, 0)}

\* Non-negative counts over the whole range of int: small ones, 2^62,
\* 230584300921369396 (the least count whose product with 40 passes 2^63) and
\* the largest int.
Int64Counts ==
    {ToInt64(0), ToInt64(1), ToInt64(MaxCount), <<0, 0, 0, 16384>>,
     <<13108, 13107, 13107, 819>>, <<65535, 65535, 65535, 32767>>}

SeverityFields == <<"Critical", "High", "Medium", "Low">>

\* Pairs of summaries that differ in at most one severity count, the second
\* summary holding the count that is not the smaller one.
SummaryPairs ==
    LET base == {SummaryOf(0, c, h, m, l, 0, 0) :
                    c \in 0..1, h \in 0..1, m \in 0..1, l \in 0..1}
        raised(s, f) == {<<s, [s EXCEPT ![f] = v]>> :
                            v \in {w \in Int64Counts : ~Less64(w, s[f])}}
    IN  UNION {raised(s, SeverityFields[f]) : s \in base, f \in 1..Len(SeverityFields)}

ScoreInputs == (0 - ScoreMargin)..(100 + ScoreMargin)

SeverityInputs == Severities \cup {"", "critical", "Unknown"}

Call(fn, arg) == [fn |-> fn, arg |-> arg, result |-> <<>>, pos |-> "call"]

InitScorer ==
    /\ \/ \E s \in Summaries : calc = Call("Score", <<ScoredReport(s)>>)
       \/ \E p \in SummaryPairs :
              calc = Call("Score", <<ScoredReport(p[1]), ScoredReport(p[2])>>)
       \/ \E a \in ScoreInputs, b \in ScoreInputs : calc = Call("Grade", <<a, b>>)
       \/ \E a \in SeverityInputs, b \in SeverityInputs :
              calc = Call("SeverityRank", <<a, b>>)
    /\ run = NoRun
    /\ file = NoFile
    /\ reent = ReentInit /\ access = AccessInit /\ overflow = OverflowInit
    /\ Idle

\* The next argument of the call sequence is passed and its result recorded.
Returned(r) ==
    [calc EXCEPT !.result = Append(calc.result, r),
                 !.pos = IF Len(calc.result) + 1 = Len(calc.arg) THEN "done" ELSE "call"]

ScoreCall ==
    /\ calc.pos = "call" /\ calc.fn = "Score"
    /\ calc' = Returned(Score(calc.arg[Len(calc.result) + 1]))
    /\ UNCHANGED <<run, ScanVars, AnalyzeVars>>

GradeCall ==
    /\ calc.pos = "call" /\ calc.fn = "Grade"
    /\ calc' = Returned(Grade(calc.arg[Len(calc.result) + 1]))
    /\ UNCHANGED <<run, ScanVars, AnalyzeVars>>

SeverityRankCall ==
    /\ calc.pos = "call" /\ calc.fn = "SeverityRank"
    /\ calc' = Returned(SeverityRank(calc.arg[Len(calc.result) + 1]))
    /\ UNCHANGED <<run, ScanVars, AnalyzeVars>>

NextScorer == ScoreCall \/ GradeCall \/ SeverityRankCall

SpecScorer == InitScorer /\ [][NextScorer]_vars

-----------------------------------------------------------------------------
(* cmd: runAnalyze, the analyze command *)

MaxParsed == 2

\* The extension test left out: any existing path is accepted.
ValidateTargetAnyFile(tgt, stat) ==
    IF stat = "notexist" THEN "target not found: " \o tgt.path
    ELSE IF stat # "ok" THEN "accessing target"
    ELSE ""

\* runner.ValidateTarget: the returned error message, "" for nil.
ValidateTarget(tgt, stat) ==
    IF stat = "notexist" THEN "target not found: " \o tgt.path
    ELSE IF stat # "ok" THEN "accessing target"
    ELSE IF tgt.isDir THEN ""
    ELSE IF Ext(tgt.path) # ".sol"
         THEN "target must be a .sol file or a directory, got: " \o tgt.path
    ELSE ""

\* The flag value taken as it is.
capitalizeNone(s) == s

capitalize(s) ==
    IF s = "" THEN "" ELSE UpperChar(Char(s, 1)) \o ToLower(SubSeq(s, 2, Len(s)))

\* A file that exists but is not Solidity, and a path that does not exist.
TargetText ==
    [path |-> "notes.txt", isDir |-> FALSE,
     entries |-> <<SourceFile("notes.txt", <<"function burn() public {">>)>>]

TargetMissing == [path |-> "gone.sol", isDir |-> FALSE, entries |-> <<>>]

CmdTargets == Targets \cup {TargetText, TargetMissing}

\* The values of --fail-on the flag's usage text names.
FailOnFlags == {"none", "critical", "high", "medium", "low"}

\* The detector results Slither may report: the two of the parser's test
\* sample, an impact in another spelling on a result with two elements, and
\* an impact outside the enumeration on a result with no element.
SlitherDetectors ==
    { SlitherDetector("reentrancy-eth", "High", "Medium",
          <<DetectorElement("/contracts/EtherStore.sol", <<10, 11, 12, 13, 14>>)>>),
      SlitherDetector("tx-origin", "Medium", "High",
          <<DetectorElement("/contracts/Wallet.sol", <<8>>)>>),
      SlitherDetector("arbitrary-send-eth", "LOW", "Medium",
          <<DetectorElement("src/b.sol", <<2>>), DetectorElement("src/a.sol", <<1>>)>>),
      SlitherDetector("naming-convention", "Unknown", "Low", <<>>) }

\* The decoded contents of the JSON file Slither wrote.
SlitherOutputs ==
    {[Success |-> TRUE, Detectors |-> d] : d \in SeqsUpTo(SlitherDetectors, MaxParsed)}
        \cup {[Success |-> FALSE, Detectors |-> <<>>]}

InitCommand ==
    /\ target \in CmdTargets
    /\ \E st \in {"ok", "denied", "notexist"}, ns \in BOOLEAN, fo \in FailOnFlags :
           /\ (st = "notexist") = (target = TargetMissing)
           /\ run = [NoRun EXCEPT !.pos = "validate", !.stat = st,
                                  !.noSlither = ns, !.failOn = fo]
    /\ calc = NoCalc
    /\ statErr = {} /\ slitherFindings = <<>>
    /\ allFindings = <<>> /\ checkOut = <<>> /\ report = NoReport
    /\ retErr = FALSE /\ pc = "idle"
    /\ file = NoFile
    /\ reent = ReentInit /\ access = AccessInit /\ overflow = OverflowInit

\* return err: the deferred os.Remove(tmpJSON) runs if it was registered.
CmdReturn(r, err) == [r EXCEPT !.pos = "done", !.err = err, !.tmpJSON = FALSE]

CmdValidate ==
    /\ run.pos = "validate"
    /\ LET err == ValidateTarget(target, run.stat)
       IN  run' = IF err # "" THEN CmdReturn(run, err)
                  ELSE [run EXCEPT !.pos = IF run.noSlither THEN "analyze" ELSE "env"]
    /\ UNCHANGED <<calc, ScanVars, AnalyzeVars>>

CmdDetectEnvironment ==
    /\ run.pos = "env"
    /\ \/ run' = [run EXCEPT !.pos = "slither"]
       \/ run' = CmdReturn(run, "environment check failed")
    /\ UNCHANGED <<calc, ScanVars, AnalyzeVars>>

CmdRunSlither ==
    /\ run.pos = "slither"
    /\ \/ run' = [run EXCEPT !.pos = "parse", !.slitherCalled = TRUE, !.tmpJSON = TRUE]
       \/ run' = CmdReturn([run EXCEPT !.slitherCalled = TRUE], "slither execution failed")
    /\ UNCHANGED <<calc, ScanVars, AnalyzeVars>>

CmdParse ==
    /\ run.pos = "parse"
    /\ \E readable \in BOOLEAN, valid \in BOOLEAN, output \in SlitherOutputs :
           LET parsed == Parse(readable, valid, output)
           IN  /\ slitherFindings' = parsed.findings
               /\ run' = IF parsed.err # ""
                         THEN CmdReturn(run, "parsing slither output: " \o parsed.err)
                         ELSE [run EXCEPT !.pos = "analyze"]
    /\ UNCHANGED <<calc, ScanVars, target, statErr, allFindings, checkOut, report, retErr, pc>>

\* analyzer.Analyze(target, slitherFindings) is entered; the detectors' own
\* os.Stat of the target may fail although ValidateTarget's succeeded.
CmdCallAnalyze ==
    /\ run.pos = "analyze" /\ pc = "idle"
    /\ statErr' \in SUBSET (1..Len(customChecks))
    /\ pc' = "start"
    /\ run' = [run EXCEPT !.pos = "analyzing"]
    /\ UNCHANGED <<calc, ScanVars, target, slitherFindings, allFindings, checkOut, report, retErr>>

CmdScore ==
    /\ run.pos = "analyzing" /\ pc = "done"
    /\ run' = IF retErr THEN CmdReturn(run, "analysis failed")
              ELSE LET score == FromInt64(Score(Int64Report(report)))
                   IN  [run EXCEPT !.pos = "write", !.score = score,
                                   !.grade = Grade(score)]
    /\ UNCHANGED <<calc, ScanVars, AnalyzeVars>>

CmdWrite ==
    /\ run.pos = "write"
    /\ \/ run' = [run EXCEPT !.pos = "failon", !.writeCalled = TRUE]
       \/ run' = CmdReturn([run EXCEPT !.writeCalled = TRUE], "writing report")
    /\ UNCHANGED <<calc, ScanVars, AnalyzeVars>>

\* Step 8: os.Exit(1) on a finding at or above the threshold (deferred calls
\* do not run), else return nil.
CmdFailOn ==
    /\ run.pos = "failon"
    /\ run' = IF /\ run.failOn # "none"
                 /\ \E i \in 1..Len(report.Findings) :
                        SeverityRank(report.Findings[i].Severity)
                            <= SeverityRank(capitalize(run.failOn))
              THEN [run EXCEPT !.pos = "exited"]
              ELSE CmdReturn(run, "")
    /\ UNCHANGED <<calc, ScanVars, AnalyzeVars>>

NextCommand ==
    \/ CmdValidate
    \/ CmdDetectEnvironment
    \/ CmdRunSlither
    \/ CmdParse
    \/ CmdCallAnalyze
    \/ AnalyzeStart
    \/ AnalyzeRunCheck
    \/ AnalyzeDeduplicate
    \/ AnalyzeSort
    \/ AnalyzeReturn
    \/ CmdScore
    \/ CmdWrite
    \/ CmdFailOn

SpecCommand == InitCommand /\ [][NextCommand]_vars

-----------------------------------------------------------------------------
(* Claims about Analyze (specification Spec) *)

Done == pc = "done"

\* What the loop over customChecks handed on, in order: the external findings,
\* then the findings of each check that returned no error.
Succeeded(d) == IF checkOut[d].err THEN <<>> ELSE checkOut[d].findings

Concatenated == slitherFindings \o Succeeded(1) \o Succeeded(2) \o Succeeded(3)

LeqFile(a, b) == ~StrLess(b, a)

\* C1: the findings of every returned Report are sorted ascending by
\* (severity rank, file path): of two adjacent findings the first has the
\* smaller rank, or the same rank and a file path that is not greater.
C1_ReportSorted ==
    Done =>
        \A i \in 1..(Len(report.Findings) - 1) :
            LET f == report.Findings[i]
                g == report.Findings[i + 1]
            IN  \/ SeverityRank(f.Severity) < SeverityRank(g.Severity)
                \/ /\ SeverityRank(f.Severity) = SeverityRank(g.Severity)
                   /\ LeqFile(f.File, g.File)

\* A Report of three or more findings whose external findings arrived with
\* equal rank and descending file paths, so the sort had to reorder them.
C1_Witness ==
    /\ Done
    /\ Len(report.Findings) >= 3
    /\ Len(slitherFindings) = 2
    /\ SeverityRank(slitherFindings[1].Severity) = SeverityRank(slitherFindings[2].Severity)
    /\ StrLess(slitherFindings[2].File, slitherFindings[1].File)
    /\ \E i \in 1..(Len(report.Findings) - 1) :
           SeverityRank(report.Findings[i].Severity) < SeverityRank(report.Findings[i + 1].Severity)

\* C2: in every returned Report, Summary.Total equals the sum of the six
\* per-severity counts, whatever the severities of the external findings.
C2_TotalIsSumOfCounts ==
    Done =>
        report.Summary.Total =
            report.Summary.Critical + report.Summary.High + report.Summary.Medium
            + report.Summary.Low + report.Summary.Informational
            + report.Summary.Optimization

\* C3: deduplication walks the findings in concatenation order (external,
\* reentrancy, access-control, integer-overflow) and keeps, for every key, the
\* earliest finding and no other: the Report holds exactly the findings that
\* no earlier finding shares the key of, and no two of its findings share a key.
C3_FirstPerKeySurvives ==
    Done =>
        LET first == {i \in 1..Len(Concatenated) :
                        \A j \in 1..(i - 1) :
                            DedupKey(Concatenated[j]) # DedupKey(Concatenated[i])}
            kept  == {report.Findings[i] : i \in 1..Len(report.Findings)}
        IN  /\ kept = {Concatenated[i] : i \in first}
            /\ Len(report.Findings) = Cardinality(first)
            /\ \A i, j \in 1..Len(report.Findings) :
                   i # j => DedupKey(report.Findings[i]) # DedupKey(report.Findings[j])

\* An external finding and a later reentrancy finding share a key, the two
\* differ in source and severity, and the Report holds the external one only.
C3_Witness ==
    /\ Done
    /\ \E i \in 1..Len(slitherFindings) : \E j \in 1..Len(Succeeded(1)) :
           /\ DedupKey(slitherFindings[i]) = DedupKey(Succeeded(1)[j])
           /\ slitherFindings[i].Severity # Succeeded(1)[j].Severity
           /\ \E k \in 1..Len(report.Findings) : report.Findings[k] = slitherFindings[i]
           /\ \A k \in 1..Len(report.Findings) : report.Findings[k] # Succeeded(1)[j]
    /\ Len(Succeeded(2)) > 0 /\ Len(Succeeded(3)) > 0

\* C4: a failing check never aborts Analyze: whichever checks fail, the error
\* returned is nil, every external finding and every finding of a check that
\* succeeded is represented in the Report (itself or the earlier finding that
\* shares its key), and when all three checks fail the Report is exactly the
\* deduplicated, sorted external findings.
C4_FailedCheckIsSkipped ==
    Done =>
        /\ retErr = FALSE
        /\ \A i \in 1..Len(Concatenated) :
               \E k \in 1..Len(report.Findings) :
                   DedupKey(report.Findings[k]) = DedupKey(Concatenated[i])
        /\ \A k \in 1..Len(report.Findings) :
               \E i \in 1..Len(Concatenated) : report.Findings[k] = Concatenated[i]
        /\ (\A d \in 1..Len(customChecks) : checkOut[d].err) =>
               report.Findings = sortSlice(deduplicate(slitherFindings))

\* The first check failed, the second succeeded with findings, and the Report
\* holds external findings and findings of the second check.
C4_Witness ==
    /\ Done
    /\ checkOut[1].err /\ ~checkOut[2].err
    /\ Len(checkOut[2].findings) > 0 /\ Len(slitherFindings) > 0
    /\ \E k \in 1..Len(report.Findings) : report.Findings[k].Source = "slither"
    /\ \E k \in 1..Len(report.Findings) :
           report.Findings[k].Check = "custom-missing-access-control"


-----------------------------------------------------------------------------
(* Claims about CheckReentrancy (specification SpecReentrancy) *)

Max(S) == CHOOSE x \in S : \A y \in S : y <= x

\* The scanned file read as the claims describe it, line by line.
RLine(n) == TrimSpace(file.lines[n])

RIsDeclaration(n) == Contains(RLine(n), "function ") /\ Contains(RLine(n), "(")

RIsClosingBrace(n) == RLine(n) = "}"

RIsComment(n) == HasPrefix(RLine(n), "//")

RIsExternalCall(n) ==
    /\ ~RIsComment(n)
    /\ \E p \in {".call{", ".call(", ".delegatecall(", ".transfer(", ".send("} :
           Contains(RLine(n), p)

RIsGuard(n) ==
    \E g \in {"nonReentrant", "ReentrancyGuard", "mutex"} : Contains(RLine(n), g)

RIsMutation(n) ==
    /\ ~RIsComment(n)
    /\ \E p \in {"balances[", "balanceOf[", "= 0;", "-= ", "+= "} : Contains(RLine(n), p)

\* The declaration line of the function line n belongs to (0: none).
RDeclarationOf(n) ==
    LET ds == {d \in 1..n : RIsDeclaration(d)} IN IF ds = {} THEN 0 ELSE Max(ds)

\* Line n lies in a function body: no bare closing brace since its declaration.
RInBody(n) ==
    /\ RDeclarationOf(n) > 0
    /\ \A k \in RDeclarationOf(n)..(n - 1) : ~RIsClosingBrace(k)

RCallsBefore(n) == {c \in RDeclarationOf(n)..n : RIsExternalCall(c)}

RGuardBefore(n) == \E g \in RDeclarationOf(n)..n : RIsGuard(g)

RFindingsAt(n) == {i \in 1..Len(reent.findings) : reent.findings[i].Lines[2] = n}

\* C5: in a function body where an external call has been seen and no guard
\* signal has, every non-comment line with a state-mutation pattern emits
\* exactly one finding (however many patterns match), of severity High, check
\* custom-reentrancy-ordering and lines = [most recent call line, this line].
C5_OneFindingPerMutationLine ==
    \A n \in 1..reent.lineNum :
        (RInBody(n) /\ RCallsBefore(n) # {} /\ ~RGuardBefore(n) /\ RIsMutation(n)) =>
            /\ Cardinality(RFindingsAt(n)) = 1
            /\ \A i \in RFindingsAt(n) :
                   /\ reent.findings[i].Severity = SeverityHigh
                   /\ reent.findings[i].Check = "custom-reentrancy-ordering"
                   /\ reent.findings[i].Lines = <<Max(RCallsBefore(n)), n>>

\* A scanned file where a line matching two mutation patterns follows a call
\* made on an earlier line of the same unguarded function.
C5_Witness ==
    /\ reent.pos = "done" /\ ~reent.err
    /\ \E n \in 1..reent.lineNum :
           /\ RInBody(n) /\ RCallsBefore(n) # {} /\ ~RGuardBefore(n) /\ RIsMutation(n)
           /\ Contains(RLine(n), "balances[") /\ Contains(RLine(n), "= 0;")
           /\ Max(RCallsBefore(n)) < n
           /\ \E i \in 1..Len(reent.findings) :
                  reent.findings[i].Lines = <<Max(RCallsBefore(n)), n>>

\* C6: when a guard signal stands on the declaration line or on any line of
\* the same function at or before a state-mutation line, that line emits no
\* finding; a function declared with the guard emits none at all.
C6_GuardSuppressesFindings ==
    \A n \in 1..reent.lineNum :
        (RInBody(n) /\ RGuardBefore(n)) => RFindingsAt(n) = {}

\* A scanned function declared with the guard modifier whose body makes an
\* external call and then mutates state, with no finding emitted.
C6_Witness ==
    /\ reent.pos = "done" /\ ~reent.err
    /\ reent.findings = <<>>
    /\ \E n \in 1..reent.lineNum :
           /\ RInBody(n) /\ RIsGuard(RDeclarationOf(n)) /\ RIsMutation(n)
           /\ \E c \in RCallsBefore(n) : c < n

-----------------------------------------------------------------------------
(* Claims about CheckAccessControl (specification SpecAccess) *)

ALine(n) == TrimSpace(file.lines[n])

\* A comment line of a Solidity source: a line comment, or a line that opens
\* or continues a block comment.
AIsComment(n) ==
    \/ HasPrefix(ALine(n), "//")
    \/ HasPrefix(ALine(n), "/*")
    \/ HasPrefix(ALine(n), "*")

\* A declaration line of the form `function <keyword>(...) public`.
AIsPublicDeclarationOf(n, keyword) ==
    /\ HasPrefix(ALine(n), "function " \o keyword \o "(")
    /\ Contains(ALine(n), ") public")

AMentionsModifier(n) ==
    \E m \in {"onlyowner", "onlyrole", "onlyadmin", "onlyminter", "onlypauser",
              "requiresauth", "restricted", "auth", "isowner"} :
        Contains(ToLower(ALine(n)), m)

AIsRestricted(n) == Contains(ALine(n), " internal ") \/ Contains(ALine(n), " private ")

AFindingsAt(n) == {i \in 1..Len(access.findings) : access.findings[i].Lines = <<n>>}

\* C7: for every keyword of the sensitive catalog, a non-comment declaration
\* line `function <keyword>(...) public` with no access-modifier keyword and
\* no internal/private visibility emits one finding at the keyword's
\* configured severity, with lines = [declaration line].
C7_EveryCatalogKeywordIsReported ==
    \A n \in 1..access.lineNum :
        \A k \in 1..Len(sensitivePatterns) :
            ( /\ AIsPublicDeclarationOf(n, sensitivePatterns[k].keyword)
              /\ ~AIsComment(n) /\ ~AMentionsModifier(n) /\ ~AIsRestricted(n) ) =>
                /\ Cardinality(AFindingsAt(n)) = 1
                /\ \A i \in AFindingsAt(n) :
                       access.findings[i].Severity = sensitivePatterns[k].severity

\* C8: a sensitive declaration line that contains an access-modifier keyword
\* or ` internal ` / ` private ` emits no finding; a public mint declaration
\* with neither emits exactly one Critical finding whose title names mint;
\* comment lines never emit findings.
C8_GuardedAndCommentLinesAreSilent ==
    \A n \in 1..access.lineNum :
        /\ (AMentionsModifier(n) \/ AIsRestricted(n)) => AFindingsAt(n) = {}
        /\ ( /\ AIsPublicDeclarationOf(n, "mint")
             /\ ~AIsComment(n) /\ ~AMentionsModifier(n) /\ ~AIsRestricted(n) ) =>
               /\ Cardinality(AFindingsAt(n)) = 1
               /\ \A i \in AFindingsAt(n) :
                      /\ access.findings[i].Severity = SeverityCritical
                      /\ Contains(access.findings[i].Title, "mint")
        /\ AIsComment(n) => AFindingsAt(n) = {}


-----------------------------------------------------------------------------
(* Claims about CheckIntegerOverflow (specification SpecOverflow) *)

OLine(n) == TrimSpace(file.lines[n])

OIsPragma(n) == HasPrefix(OLine(n), "pragma solidity")

OPragmaLines == {n \in 1..Len(file.lines) : OIsPragma(n)}

\* The major.minor version a pragma line declares, as a reader of the source
\* file takes it (the lower bound of a range); <<>> when it declares none.
ODeclaredVersion(line) ==
    CASE line = "pragma solidity 0.7.0;"           -> <<0, 7>>
      [] line = "pragma solidity ^0.8.0;"          -> <<0, 8>>
      [] line = "pragma solidity >=0.4.22 <0.9.0;" -> <<0, 4>>
      [] line = "pragma solidity 0.0.1;"           -> <<0, 0>>
      [] OTHER                                     -> <<>>

OIsComment(n) ==
    \/ HasPrefix(OLine(n), "//")
    \/ HasPrefix(OLine(n), "/*")
    \/ HasPrefix(OLine(n), "*")

OIsArithmetic(n) ==
    \E op \in {" + ", " - ", " * ", " / ", " % ", "++", "--", "+=", "-=", "*=", "/="} :
        Contains(OLine(n), op)

\* Line n lies inside an unchecked block opened on an earlier line.
OInUnchecked(n) ==
    \E u \in 1..(n - 1) :
        /\ OLine(u) \in {"unchecked {", "unchecked{"}
        /\ \A k \in (u + 1)..n : OLine(k) # "}"

OFindingsAt(n) ==
    {i \in 1..Len(overflow.findings) :
        overflow.findings[i].Lines[Len(overflow.findings[i].Lines)] = n}

\* C9: a file with no version pragma, or whose pragma cannot be parsed into
\* major.minor, is analysed as version 0.8: no line of it yields a High
\* custom-integer-overflow finding.
C9_SafeDefaultWithoutPragma ==
    (\A p \in OPragmaLines : ODeclaredVersion(OLine(p)) = <<>>) =>
        \A i \in 1..Len(overflow.findings) :
            overflow.findings[i].Check # "custom-integer-overflow"

\* C10: in a file whose pragma declares 0.x with x < 8, every non-comment
\* line after the pragma with an arithmetic operator token and no SafeMath
\* emits exactly one High custom-integer-overflow finding with lines = [that
\* line]; in a file declaring 0.8 or later, an arithmetic line outside any
\* unchecked block emits no finding.
C10_FindingsFollowDeclaredVersion ==
    \A p \in OPragmaLines :
        (OPragmaLines = {p} /\ ODeclaredVersion(OLine(p)) # <<>>) =>
            LET v == ODeclaredVersion(OLine(p)) IN
            \A n \in 1..overflow.lineNum :
                /\ ( /\ v[1] = 0 /\ v[2] < 8 /\ n > p
                     /\ ~OIsComment(n) /\ OIsArithmetic(n)
                     /\ ~Contains(OLine(n), "SafeMath") ) =>
                       /\ Cardinality(OFindingsAt(n)) = 1
                       /\ \A i \in OFindingsAt(n) :
                              /\ overflow.findings[i].Severity = SeverityHigh
                              /\ overflow.findings[i].Check = "custom-integer-overflow"
                              /\ overflow.findings[i].Lines = <<n>>
                /\ ( /\ (v[1] > 0 \/ v[2] >= 8)
                     /\ OIsArithmetic(n) /\ ~OInUnchecked(n) ) =>
                       OFindingsAt(n) = {}

\* The line that opened the unchecked block line n lies in (0: none).
OBlockOpen(n) ==
    LET us == {u \in 1..(n - 1) :
                  /\ OLine(u) \in {"unchecked {", "unchecked{"}
                  /\ \A k \in (u + 1)..n : OLine(k) # "}"}
    IN  IF us = {} THEN 0 ELSE Max(us)

OUncheckedFindingsAt(n) ==
    {i \in OFindingsAt(n) : overflow.findings[i].Check = "custom-unchecked-arithmetic"}

\* C11: in a file declaring 0.8 or later, every non-comment arithmetic line
\* after an unchecked-open line and before the next bare closing brace emits
\* exactly one Low custom-unchecked-arithmetic finding with lines = [block-open
\* line, arithmetic line]; after the closing brace no such finding is emitted
\* until another unchecked-open line is read.
C11_UncheckedBlockFindings ==
    \A p \in OPragmaLines :
        ( /\ OPragmaLines = {p}
          /\ ODeclaredVersion(OLine(p)) # <<>>
          /\ ODeclaredVersion(OLine(p))[2] >= 8 ) =>
            \A n \in 1..overflow.lineNum :
                /\ (OInUnchecked(n) /\ OIsArithmetic(n) /\ ~OIsComment(n)) =>
                       /\ Cardinality(OFindingsAt(n)) = 1
                       /\ \A i \in OFindingsAt(n) :
                              /\ overflow.findings[i].Severity = SeverityLow
                              /\ overflow.findings[i].Check = "custom-unchecked-arithmetic"
                              /\ overflow.findings[i].Lines = <<OBlockOpen(n), n>>
                /\ ~OInUnchecked(n) => OUncheckedFindingsAt(n) = {}

-----------------------------------------------------------------------------
(* Claims about the pure functions (specification SpecScorer) *)

Returns(fn) == calc.fn = fn /\ calc.pos = "done"

\* The count c as an integer, cut down to 101: a larger count passes the cap
\* of 100 under every weight.
CutCount(c) == IF Less64(ToInt64(101), c) THEN 101 ELSE FromInt64(c)

\* min(100, 40*Critical + 20*High + 10*Medium + 3*Low) over the integers
CappedWeightedSum(s) ==
    Min(100, 40 * CutCount(s.Critical) + 20 * CutCount(s.High)
                 + 10 * CutCount(s.Medium) + 3 * CutCount(s.Low))

\* C12: Score(report) = min(100, 40*Critical + 20*High + 10*Medium + 3*Low)
\* for every Summary of non-negative counts; the Informational, Optimization
\* and Total fields do not affect it, and ten Criticals score exactly 100.
C12_ScoreIsCappedWeightedSum ==
    Returns("Score") =>
        \A a \in 1..Len(calc.arg) :
            LET s == calc.arg[a].Summary
            IN  /\ calc.result[a] = ToInt64(CappedWeightedSum(s))
                /\ (s.Critical = ToInt64(10) => calc.result[a] = ToInt64(100))

\* x <= y as signed integers
Leq64(x, y) == ~Less64(y, x)

\* Every severity count of the summary s is at most that of the summary t.
CountsLeq(s, t) ==
    \A f \in 1..Len(SeverityFields) : Leq64(s[SeverityFields[f]], t[SeverityFields[f]])

\* C22: for arbitrary non-negative severity counts, as machine integers, the
\* score lies in [0,100], and raising one of the Critical, High, Medium and
\* Low counts with the others fixed never lowers the score.
C22_ScoreBoundedAndMonotone ==
    Returns("Score") =>
        /\ \A a \in 1..Len(calc.arg) :
               /\ Leq64(ToInt64(0), calc.result[a])
               /\ Leq64(calc.result[a], ToInt64(100))
        /\ \A a, b \in 1..Len(calc.arg) :
               CountsLeq(calc.arg[a].Summary, calc.arg[b].Summary) =>
                   Leq64(calc.result[a], calc.result[b])

GradeLetters == <<"A", "B", "C", "D", "F">>

GradeIndex(g) == CHOOSE i \in 1..Len(GradeLetters) : GradeLetters[i] = g

\* C13: Grade gives A below 10, B for 10..24, C for 25..49, D for 50..74 and
\* F from 75 on; every score gets exactly one of the five grades and a higher
\* score never gets a better grade.
C13_GradeBoundariesAndMonotone ==
    Returns("Grade") =>
        /\ \A i \in 1..Len(calc.arg) :
               LET score == calc.arg[i]
                   g     == calc.result[i]
               IN  /\ \E k \in 1..Len(GradeLetters) : g = GradeLetters[k]
                   /\ (g = "A") = (score < 10)
                   /\ (g = "B") = (score >= 10 /\ score <= 24)
                   /\ (g = "C") = (score >= 25 /\ score <= 49)
                   /\ (g = "D") = (score >= 50 /\ score <= 74)
                   /\ (g = "F") = (score >= 75)
        /\ calc.arg[1] <= calc.arg[2] =>
               GradeIndex(calc.result[1]) <= GradeIndex(calc.result[2])

\* Two scores on either side of a boundary, graded differently.
C13_Witness ==
    /\ Returns("Grade")
    /\ calc.arg = <<24, 25>>
    /\ calc.result = <<"B", "C">>

\* C14: SeverityRank orders Critical=0 < High=1 < Medium=2 < Low=3 <
\* Informational=4 < Optimization=5 and gives every other value, the empty
\* string included, rank 6, above every recognized severity.
C14_SeverityRankOrder ==
    Returns("SeverityRank") =>
        /\ \A i \in 1..Len(calc.arg) :
               LET s == calc.arg[i]
                   r == calc.result[i]
               IN  /\ (s = "Critical") = (r = 0)
                   /\ (s = "High") = (r = 1)
                   /\ (s = "Medium") = (r = 2)
                   /\ (s = "Low") = (r = 3)
                   /\ (s = "Informational") = (r = 4)
                   /\ (s = "Optimization") = (r = 5)
                   /\ (s \notin {"Critical", "High", "Medium", "Low",
                                 "Informational", "Optimization"}) = (r = 6)
        /\ (calc.arg[1] # calc.arg[2] /\ calc.result[1] < 6) =>
               calc.result[1] # calc.result[2]

\* The empty string ranked against the least severe recognized value.
C14_Witness ==
    /\ Returns("SeverityRank")
    /\ calc.arg = <<"", "Optimization">>
    /\ calc.result = <<6, 5>>

-----------------------------------------------------------------------------
(* Claims about runAnalyze (specification SpecCommand) *)

\* The target check fails: the path is missing or inaccessible, or it is not a
\* directory and its name does not end in .sol.
TargetCheckFails ==
    \/ run.stat # "ok"
    \/ /\ ~target.isDir
       /\ ~(Len(target.path) >= 4
            /\ SubSeq(target.path, Len(target.path) - 3, Len(target.path)) = ".sol")

\* C15: when the target check fails the command returns the error before
\* Slither is run, before any detector is run and before the report is
\* written: no execution reaches the report-write step after it.
C15_FailedTargetCheckAborts ==
    (TargetCheckFails /\ run.pos # "validate") =>
        /\ run.pos = "done" /\ run.err # ""
        /\ ~run.slitherCalled
        /\ pc = "idle" /\ checkOut = <<>> /\ report = NoReport
        /\ ~run.writeCalled

\* The command has returned the error of an existing file that is not a .sol
\* file.
C15_Witness ==
    /\ run.pos = "done"
    /\ target = TargetText /\ run.stat = "ok"
    /\ run.err = "target must be a .sol file or a directory, got: notes.txt"
    /\ ~run.writeCalled

-----------------------------------------------------------------------------
(* Claims about the detectors as Analyze calls them (specification Spec) *)

\* The files a detector opens for the target.
ScannedFiles == IF target.isDir THEN WalkSol(target.entries) ELSE target.entries

\* C16: a detector returns an error only for a filesystem error (the target
\* cannot be stat'ed, a file cannot be opened or read); for readable files,
\* whatever their text and however long their lines, it returns its findings
\* and no error.
C16_DetectorsFailOnlyOnFilesystemErrors ==
    \A d \in 1..Len(checkOut) :
        checkOut[d].err =>
            \/ d \in statErr
            \/ \E i \in 1..Len(ScannedFiles) : ~ScannedFiles[i].readable

\* The place of a finding in the concatenation the report was built from.
MinOf(S) == CHOOSE x \in S : \A y \in S : x <= y

FirstIndex(seq, x) == MinOf({p \in 1..Len(seq) : seq[p] = x})

\* C17: two findings of the report with equal severity rank and equal file
\* stand in the relative order they had in the deduplicated concatenation,
\* whatever the length of the list.
C17_SortIsStable ==
    Done =>
        \A i \in 1..Len(report.Findings) : \A j \in (i + 1)..Len(report.Findings) :
            ( /\ SeverityRank(report.Findings[i].Severity)
                     = SeverityRank(report.Findings[j].Severity)
              /\ report.Findings[i].File = report.Findings[j].File ) =>
                FirstIndex(Concatenated, report.Findings[i])
                    < FirstIndex(Concatenated, report.Findings[j])

-----------------------------------------------------------------------------
(* Further claims about CheckReentrancy (specification SpecReentrancy) *)

\* C18: a finding is emitted only for a state-mutation line that comes after
\* the external-call line: in every finding the call line lines[0] is
\* strictly less than the mutation line lines[1].
C18_CallLinePrecedesMutationLine ==
    \A i \in 1..Len(reent.findings) :
        reent.findings[i].Lines[1] < reent.findings[i].Lines[2]

\* C25: the call-seen context never survives a construct boundary.  When the
\* line just scanned is a bare closing brace, scanning is suspended and the
\* call-seen flag is clear; while scanning is suspended no finding is emitted;
\* when the line just scanned is a function declaration, the call-seen and
\* guard-seen flags hold only what that line itself shows.  Every finding with
\* lines [c, m] and c < m has no bare closing brace in [c, m) and no function
\* declaration in (c, m], so its call and its mutation lie in one function.
C25_ContextResetsAtBoundaries ==
    /\ \A n \in 1..reent.lineNum :
           (n = reent.lineNum /\ RIsClosingBrace(n)) =>
               ~reent.inFunction /\ ~reent.sawExternalCall
    /\ \A n \in 1..reent.lineNum :
           (n = reent.lineNum /\ RIsDeclaration(n)) =>
               /\ reent.sawExternalCall = (RIsExternalCall(n) /\ ~RIsClosingBrace(n))
               /\ reent.hasGuard = RIsGuard(n)
    /\ \A n \in 1..reent.lineNum : ~RInBody(n) => RFindingsAt(n) = {}
    /\ \A i \in 1..Len(reent.findings) :
           LET c == reent.findings[i].Lines[1]
               m == reent.findings[i].Lines[2]
           IN  c < m =>
                   /\ \A j \in c..(m - 1) : ~RIsClosingBrace(j)
                   /\ \A j \in (c + 1)..m : ~RIsDeclaration(j)
                   /\ RDeclarationOf(c) = RDeclarationOf(m)

\* A finding pairs a call with a later mutation of the same function, the
\* function is then closed by a bare brace, and the scan ends suspended.
C25_Witness ==
    /\ reent.pos = "done" /\ ~reent.inFunction /\ ~reent.sawExternalCall
    /\ \E i \in 1..Len(reent.findings) :
           /\ reent.findings[i].Lines[1] < reent.findings[i].Lines[2]
           /\ \E j \in (reent.findings[i].Lines[2] + 1)..reent.lineNum : RIsClosingBrace(j)

-----------------------------------------------------------------------------
(* Further claims about CheckAccessControl (specification SpecAccess) *)

\* A public declaration whose name continues the keyword in camelCase:
\* `function <keyword><Uppercase letter>...(...) public`.
AIsCamelCaseDeclarationOf(n, keyword) ==
    LET head == "function " \o keyword IN
    /\ HasPrefix(ALine(n), head)
    /\ Len(ALine(n)) > Len(head)
    /\ Contains("ABCDEFGHIJKLMNOPQRSTUVWXYZ", Char(ALine(n), Len(head) + 1))
    /\ Contains(ALine(n), ") public")

\* C19: a keyword matches when the character after it in the function name
\* is `(` or an uppercase letter: an unguarded public declaration whose name
\* is a camelCase continuation of a keyword (mintTokens, withdrawAll) yields
\* a finding for that keyword.  (A name that is itself a catalog keyword, such
\* as upgradeToAndCall, is the case of C7.)
C19_CamelCaseContinuationIsReported ==
    \A n \in 1..access.lineNum :
        \A k \in 1..Len(sensitivePatterns) :
            ( /\ AIsCamelCaseDeclarationOf(n, sensitivePatterns[k].keyword)
              /\ \A c \in 1..Len(sensitivePatterns) :
                     ~AIsPublicDeclarationOf(n, sensitivePatterns[c].keyword)
              /\ ~AIsComment(n) /\ ~AMentionsModifier(n) /\ ~AIsRestricted(n) ) =>
                \E i \in AFindingsAt(n) :
                    access.findings[i].Severity = sensitivePatterns[k].severity

-----------------------------------------------------------------------------
(* Claims about the frame of Analyze (specification Spec) *)

\* The number of positions of the sequence s that hold the finding f.
Count(s, f) == Cardinality({i \in 1..Len(s) : s[i] = f})

\* The findings of s, with their multiplicities, all occur in t.
SubMultiset(s, t) == \A i \in 1..Len(s) : Count(s, s[i]) <= Count(t, s[i])

\* C20: consolidation never creates or mutates findings.  When Analyze has
\* returned, every finding of the Report equals, field for field, a finding of
\* the external findings followed by the outputs of the successful detectors,
\* and occurs in the Report at most as often as there; and no step of Analyze
\* changes the caller's external findings sequence or its order.
C20_ConsolidationOnlyFiltersAndReorders ==
    [][ /\ slitherFindings' = slitherFindings
        /\ Done' => SubMultiset(report'.Findings, Concatenated') ]_vars

\* Analyze has returned a Report that holds external and detector findings,
\* from which deduplicate removed a finding and which sort.Slice reordered.
C20_Witness ==
    /\ Done
    /\ Len(slitherFindings) > 0
    /\ \E d \in 1..Len(customChecks) : Len(Succeeded(d)) > 0
    /\ 0 < Len(report.Findings) /\ Len(report.Findings) < Len(Concatenated)
    /\ report.Findings # deduplicate(Concatenated)
    /\ \E k \in 1..Len(report.Findings) : report.Findings[k].Source = "slither"
    /\ \E k \in 1..Len(report.Findings) : report.Findings[k].Source # "slither"

-----------------------------------------------------------------------------
(* Claims about deduplicate (specification Spec) *)

\* The dedup keys of the findings of a sequence.
Keys(s) == {DedupKey(s[i]) : i \in 1..Len(s)}

\* The sequence handed to deduplicate has been assembled.
Merged == Len(checkOut) = Len(customChecks)

\* C21: deduplication is idempotent and deterministic.  Once the external
\* findings and the detector outputs are merged, deduplicating the
\* deduplicated sequence changes nothing; the sequence Analyze holds after
\* deduplicate, and the Report's findings, are fixed points of deduplicate, and
\* the keys that survive are exactly the keys of the merged input.
C21_DeduplicateIsIdempotent ==
    Merged =>
        /\ deduplicate(deduplicate(Concatenated)) = deduplicate(Concatenated)
        /\ Keys(deduplicate(Concatenated)) = Keys(Concatenated)
        /\ pc \in {"sort", "report"} =>
               /\ deduplicate(allFindings) = allFindings
               /\ Keys(allFindings) = Keys(Concatenated)
        /\ Done =>
               /\ deduplicate(report.Findings) = report.Findings
               /\ Keys(report.Findings) = Keys(Concatenated)

\* Analyze has returned and deduplicate dropped at least two findings of the
\* merged sequence.
C21_Witness ==
    /\ Done
    /\ Len(report.Findings) + 2 <= Len(Concatenated)
    /\ Len(report.Findings) > 0

-----------------------------------------------------------------------------
(* Claims about the exit code of runAnalyze (specification SpecCommand) *)

\* The severity a --fail-on value names.
ThresholdSeverity(t) ==
    CASE t = "critical" -> SeverityCritical
      [] t = "high" -> SeverityHigh
      [] t = "medium" -> SeverityMedium
      [] t = "low" -> SeverityLow

\* The report holds a finding at or above the severity the flag names.
AtOrAboveThreshold ==
    \E i \in 1..Len(report.Findings) :
        SeverityRank(report.Findings[i].Severity)
            <= SeverityRank(ThresholdSeverity(run.failOn))

\* The command has ended: runAnalyze returned, or step 8 called os.Exit(1).
Terminated == run.pos \in {"done", "exited"}

\* The exit code of the process: 1 from os.Exit(1) in step 8, 1 from Execute
\* when runAnalyze returned an error, 0 when it returned nil.
ExitCode == IF run.pos = "exited" \/ run.err # "" THEN 1 ELSE 0

\* C23 as stated: with --fail-on T, T one of critical, high, medium, low, the
\* command exits with code 1 if and only if the report holds a finding whose
\* rank is at most the rank of T; a severity of rank 6 never triggers the exit,
\* and with --fail-on none findings never cause exit code 1.
C23_FailOnExitsIffFindingAtOrAbove ==
    /\ (Terminated /\ run.failOn # "none") => (ExitCode = 1 <=> AtOrAboveThreshold)
    /\ (Terminated /\ run.failOn = "none") => run.pos # "exited"
    /\ \A t \in FailOnFlags \ {"none"}, s \in SeverityInputs :
           SeverityRank(s) = 6 => ~(SeverityRank(s) <= SeverityRank(capitalize(t)))

\* C23, amended: with --fail-on T, T one of critical, high, medium, low, the
\* command exits with code 1 if and only if one of its steps returned an error
\* or the report holds a finding whose rank is at most the rank of T.  The
\* exit of step 8 happens only after the report was written and no step
\* failed.  With --fail-on none the command exits with code 1 if and only if a
\* step returned an error, whatever the findings are, and a severity of rank 6
\* is at or above no threshold.
C23_ExitsIffErrorOrFindingAtOrAbove ==
    /\ (Terminated /\ run.failOn # "none")
           => (ExitCode = 1 <=> (run.err # "" \/ AtOrAboveThreshold))
    /\ run.pos = "exited"
           => run.err = "" /\ run.writeCalled /\ run.failOn # "none" /\ AtOrAboveThreshold
    /\ (Terminated /\ run.failOn = "none")
           => run.pos # "exited" /\ (ExitCode = 1 <=> run.err # "")
    /\ \A t \in FailOnFlags \ {"none"}, s \in SeverityInputs :
           SeverityRank(s) = 6 => ~(SeverityRank(s) <= SeverityRank(capitalize(t)))

\* The command exited with code 1 under --fail-on medium: the report holds a
\* Medium finding and, below the threshold, a Low one.
C23_Witness ==
    /\ run.pos = "exited" /\ run.failOn = "medium"
    /\ \E i \in 1..Len(report.Findings) : report.Findings[i].Severity = SeverityLow
    /\ \A i \in 1..Len(report.Findings) :
           SeverityRank(report.Findings[i].Severity) >= SeverityRank(SeverityMedium)

-----------------------------------------------------------------------------
(* Claims about the findings of the three detectors (specification SpecDetectors) *)

\* The findings the three detectors have emitted for the file so far.
Emitted == reent.findings \o access.findings \o overflow.findings

\* C24: every finding a detector emits satisfies the Finding invariant: its
\* severity is one of the six enumerated values, and its lines are a non-empty
\* sequence of 1-based line numbers of the scanned file.
C24_DetectorFindingsAreWellFormed ==
    \A i \in 1..Len(Emitted) :
        /\ Emitted[i].Severity \in Severities
        /\ Len(Emitted[i].Lines) > 0
        /\ \A k \in 1..Len(Emitted[i].Lines) :
               Emitted[i].Lines[k] \in 1..Len(file.lines)

\* All three detectors have returned and each has emitted a finding, one of
\* them for the last line of the file.
C24_Witness ==
    /\ overflow.pos = "done"
    /\ Len(reent.findings) > 0 /\ Len(access.findings) > 0 /\ Len(overflow.findings) > 0
    /\ \E i \in 1..Len(Emitted) : Emitted[i].Lines[Len(Emitted[i].Lines)] = Len(file.lines)

-----------------------------------------------------------------------------
(* Claims about failing detectors (specification Spec) *)

\* The Check values of the findings the d-th detector emits.
ChecksOf(d) ==
    CASE d = 1 -> {"custom-reentrancy-ordering"}
      [] d = 2 -> {"custom-missing-access-control"}
      [] d = 3 -> {"custom-integer-overflow", "custom-unchecked-arithmetic"}

\* A file of the target cannot be opened or cannot be read to its end.
SomeFileFails ==
    \E i \in 1..Len(ScannedFiles) : ~ScannedFiles[i].readable \/ ScannedFiles[i].tooLong

\* C26: a detector that fails on any file of the target contributes nothing.
\* If a file cannot be opened or read, every detector that has run returned an
\* error and no findings, also none of the files it scanned before; and when
\* Analyze has returned, the Report holds no finding of a failed detector.
C26_FailedDetectorIsAllOrNothing ==
    /\ \A d \in 1..Len(checkOut) :
           /\ SomeFileFails => checkOut[d].err
           /\ checkOut[d].err => checkOut[d].findings = <<>>
    /\ Done =>
           \A d \in 1..Len(checkOut) :
               checkOut[d].err =>
                   \A k \in 1..Len(report.Findings) :
                       ~(/\ report.Findings[k].Source = "custom"
                         /\ report.Findings[k].Check \in ChecksOf(d))

\* Analyze has returned for a directory whose first file every detector reports
\* on and whose second file fails: all detectors failed although the stat of
\* the target succeeded, and the Report holds the external findings only.
C26_Witness ==
    /\ Done /\ target.isDir /\ statErr = {}
    /\ SomeFileFails
    /\ \A d \in 1..Len(customChecks) :
           /\ checkOut[d].err
           /\ checkInFile(d, ScannedFiles[1]).findings # <<>>
    /\ Len(report.Findings) > 0

-----------------------------------------------------------------------------
(* Claims about the Summary (specification Spec) *)

\* The findings of the Report whose severity is exactly sev, in Report order.
WithSeverity(sev) == SelectSeq(report.Findings, LAMBDA f : f.Severity = sev)

\* C27: the Summary describes exactly the final finding sequence.  In every
\* returned Report, Summary.Total is the number of findings of the Report, that
\* is of the deduplicated sequence, and each per-severity count is the number
\* of Report findings of exactly that severity.
C27_SummaryDescribesReport ==
    Done =>
        /\ report.Summary.Total = Len(report.Findings)
        /\ report.Summary.Total = Len(deduplicate(Concatenated))
        /\ report.Summary.Critical = Len(WithSeverity(SeverityCritical))
        /\ report.Summary.High = Len(WithSeverity(SeverityHigh))
        /\ report.Summary.Medium = Len(WithSeverity(SeverityMedium))
        /\ report.Summary.Low = Len(WithSeverity(SeverityLow))
        /\ report.Summary.Informational = Len(WithSeverity(SeverityInformational))
        /\ report.Summary.Optimization = Len(WithSeverity(SeverityOptimization))

\* A returned Report from which deduplicate dropped a finding and which holds
\* findings of three severities, two of them High.
C27_Witness ==
    /\ Done
    /\ report.Summary.Total < Len(Concatenated)
    /\ report.Summary.High >= 2
    /\ report.Summary.Critical >= 1
    /\ report.Summary.Medium >= 1

-----------------------------------------------------------------------------
(* Claims about the file enumeration order (specification Spec) *)

\* The orders in which the files of a sequence can be enumerated.
EnumerationOrders(s) ==
    {[i \in 1..Len(s) |-> s[p[i]]] :
        p \in {q \in [1..Len(s) -> 1..Len(s)] : \A i, j \in 1..Len(s) : q[i] = q[j] => i = j}}

\* The result of every detector on every target for every enumeration order of
\* the target's files.
PermutedResults ==
    {[d |-> d, tgt |-> t, order |-> o,
      result |-> RunCustomCheck(d, [t EXCEPT !.entries = o], FALSE)] :
        d \in 1..Len(customChecks),
        t \in {u \in Targets : u.isDir},
        o \in UNION {EnumerationOrders(u.entries) : u \in {v \in Targets : v.isDir}}}

\* What the d-th detector contributes when it enumerates the files in order o.
PermutedContribution(d, o) ==
    IF d \in statErr THEN <<>>
    ELSE Contribution((CHOOSE r \in PermutedResults :
                          r.d = d /\ r.tgt = target /\ r.order = o).result)

\* The elements of a sequence.
Range(s) == {s[i] : i \in 1..Len(s)}

\* C28: the findings of the Report do not depend on the order in which the
\* files of a directory target are discovered.  Whatever order each detector
\* enumerates the files in, consolidation leaves the same set of findings,
\* hence the same Summary, as in the Report that was returned.
C28_FileOrderDoesNotMatter ==
    (Done /\ target.isDir) =>
        \A o1, o2, o3 \in EnumerationOrders(target.entries) :
            LET survivors == deduplicate(slitherFindings \o PermutedContribution(1, o1)
                                 \o PermutedContribution(2, o2) \o PermutedContribution(3, o3))
            IN  /\ Range(survivors) = Range(report.Findings)
                /\ Len(survivors) = Len(report.Findings)
                /\ buildSummary(survivors) = report.Summary

\* A Report for the directory of two files with findings on the same line: it
\* holds findings of both files, and the detectors' outputs differ from those
\* for the reversed file order.
C28_Witness ==
    /\ Done /\ target = TargetTwins /\ statErr = {}
    /\ \E k \in 1..Len(report.Findings) : report.Findings[k].File = "twin/x.sol"
    /\ \E k \in 1..Len(report.Findings) : report.Findings[k].File = "twin/y.sol"
    /\ \A d \in {2, 3} :
           PermutedContribution(d, <<target.entries[2], target.entries[1]>>)
               # checkOut[d].findings

-----------------------------------------------------------------------------
(* Claims about the dedup key (specification Spec) *)

\* The three key components of a finding: cross-reference id, file, and the
\* first line when there is one.
KeyComponents(f) ==
    <<f.SWCRef, f.File, IF Len(f.Lines) > 0 THEN <<f.Lines[1]>> ELSE <<>> >>

\* C29: two findings are treated as duplicates if and only if they agree on all
\* three key components.  In every returned Report, no two findings agree on
\* the three components, and every combination of components that occurs among
\* the merged findings occurs in the Report: findings that differ in a
\* component are never collapsed.
C29_DuplicatesAgreeOnAllComponents ==
    Done =>
        /\ \A i, j \in 1..Len(report.Findings) :
               KeyComponents(report.Findings[i]) = KeyComponents(report.Findings[j]) => i = j
        /\ \A i \in 1..Len(Concatenated) :
               \E k \in 1..Len(report.Findings) :
                   KeyComponents(report.Findings[k]) = KeyComponents(Concatenated[i])

-----------------------------------------------------------------------------
(* Claims about repeated heuristic findings (specification Spec) *)

\* Line c of the scanned file i holds an external call.
IsCallLine(i, c) == ExternalCallSignal(TrimSpace(ScannedFiles[i].lines[c]))

\* Line c of the scanned file i opens an unchecked block.
IsUncheckedOpen(i, c) ==
    TrimSpace(ScannedFiles[i].lines[c]) \in {"unchecked {", "unchecked{"}

\* The Report findings of a check for the scanned file i that name line c.
ReportedFor(check, i, c) ==
    {k \in 1..Len(report.Findings) :
        /\ report.Findings[k].Source = "custom"
        /\ report.Findings[k].Check = check
        /\ report.Findings[k].File = ScannedFiles[i].path
        /\ \E x \in 1..Len(report.Findings[k].Lines) : report.Findings[k].Lines[x] = c}

\* The finding f is, among the findings of its detector with its check, file
\* and first line, the one for the first qualifying line.
IsFirstOfItsKey(f, d) ==
    \A x \in 1..Len(Succeeded(d)) :
        LET g == Succeeded(d)[x]
        IN  (g.Check = f.Check /\ g.File = f.File /\ g.Lines[1] = f.Lines[1]) =>
                f.Lines[2] <= g.Lines[2]

\* C30: in every returned Report there is at most one custom-reentrancy-ordering
\* finding per file and external-call line and at most one
\* custom-unchecked-arithmetic finding per file and unchecked-open line, and a
\* finding of these checks that is in the Report is the one for the first
\* qualifying line after its call, or in its block.
C30_OneFindingPerCallOrBlock ==
    Done =>
        /\ \A i \in 1..Len(ScannedFiles) :
               \A c \in 1..Len(ScannedFiles[i].lines) :
                   /\ IsCallLine(i, c) =>
                          Cardinality(ReportedFor("custom-reentrancy-ordering", i, c)) <= 1
                   /\ IsUncheckedOpen(i, c) =>
                          Cardinality(ReportedFor("custom-unchecked-arithmetic", i, c)) <= 1
        /\ \A k \in 1..Len(report.Findings) :
               /\ (report.Findings[k].Source = "custom"
                     /\ report.Findings[k].Check = "custom-reentrancy-ordering") =>
                      IsFirstOfItsKey(report.Findings[k], 1)
               /\ (report.Findings[k].Source = "custom"
                     /\ report.Findings[k].Check = "custom-unchecked-arithmetic") =>
                      IsFirstOfItsKey(report.Findings[k], 3)

\* Two mutations followed one call and two arithmetic lines lay in one
\* unchecked block: the detectors emitted two findings each, and the Report
\* holds one finding for the call line and one for the block.
C30_Witness ==
    /\ Done /\ target = TargetRepeats
    /\ Len(SelectSeq(Succeeded(1), LAMBDA f : f.Lines[1] = 4)) = 2
    /\ Len(SelectSeq(Succeeded(3), LAMBDA f : f.Lines[1] = 3)) = 2
    /\ Cardinality(ReportedFor("custom-reentrancy-ordering", 1, 4)) = 1
    /\ Cardinality(ReportedFor("custom-unchecked-arithmetic", 1, 3)) = 1

====
